---------------------------- MODULE Spec2Model ----------------------------
(***************************************************************************)
(* Shuttle route planner (ilkeral/roadmap, backend/app).                   *)
(*                                                                         *)
(* Geometry.  Points lie on one line and are whole metres; geodesic(a, b)  *)
(* is |a - b|.  Homes are placed so that every centroid the clustering     *)
(* computes is a whole metre (CentroidsExact checks it), so np.mean is     *)
(* modelled exactly by an integer division.                                *)
(*                                                                         *)
(* Real numbers.  Route distances are held in fifths of a metre and        *)
(* durations in 1/625 s, which makes the factors 1.4 and 1.6 and the       *)
(* 30 km/h of the fallbacks exact; int() and round() are taken on these    *)
(* exact values.                                                           *)
(*                                                                         *)
(* Specifications.                                                         *)
(*   SpecCluster  cluster_employees as a function of its inputs            *)
(*   SpecSolve    create_optimized_routes (FleetOptimizer, CVRPSolver)     *)
(*   SpecCreate   create_simulation, step by step, over many requests      *)
(*   SpecCreateFair  the same with the handler always running on           *)
(*   SpecEdit     one plan created, then edits and previews in sequence    *)
(*   SpecPlans    as SpecEdit, with a second plan created in between     *)
(*   SpecConcurrent  one plan, then two commit edits as two transactions   *)
(*   SpecAdds     one plan, then two add-employee commits as transactions  *)
(*   SpecScenario2  create_optimized_routes for scenario S2 of the spec    *)
(*   SpecSnap     one batch of snap_to_road tasks ending in any order      *)
(*   SpecEngine   get_distance_matrix and get_route over the engine's      *)
(*                answers                                                  *)
(*                                                                         *)
(* The routing library.  RoutingModel.SolveWithParameters is modelled by   *)
(* the constraints the code hands it: every node is mandatory (the code    *)
(* adds no disjunction), and the Capacity, Distance and Time dimensions    *)
(* bound every vehicle.  It returns some assignment that meets them, not   *)
(* necessarily a cheapest one, and None when there is none.                *)
(***************************************************************************)
EXTENDS Integers, Sequences, FiniteSets, TLC

VARIABLES
    clEmployees,   \* cluster_employees: employee_data, a list of [id, lat]
    clW,           \* cluster_employees: max_walking_distance
    clMethod,      \* cluster_employees: method ("dbscan" | "kmeans")
    clResult,      \* cluster_employees: what the call gave ([status, stops, unclustered])
    svIn,          \* create_optimized_routes: its arguments
    svResult,      \* create_optimized_routes: what the call gave
    employees,     \* table employees: rows [id, name, lat, shift_id]
    engine,        \* the routing engine: [mode, roads, pace]
    params,        \* the SimulationCreate request
    cr,            \* create_simulation: its locals and the line it stands at
    response,      \* create_simulation: what it returned or raised
    db,            \* committed rows: [simulations, simulation_routes]
    session,       \* rows create_simulation has inserted and not committed
    ed,            \* the edits and previews made so far, and the last of them
    txs,           \* the two concurrent edit transactions of SpecConcurrent
    sn,            \* snap_multiple_to_road: one batch, its tasks and its result
    rq             \* one call of get_distance_matrix or get_route and its result

clusterVars == <<clEmployees, clW, clMethod, clResult>>
solveVars == <<svIn, svResult>>
aside == <<clEmployees, clW, clMethod, clResult, svIn, svResult, sn, rq>>
worldVars == <<employees, engine, params>>
pipelineVars == <<employees, engine, params, cr, response, db, session, ed, txs, sn, rq>>
vars == <<clEmployees, clW, clMethod, clResult, svIn, svResult,
          employees, engine, params, cr, response, db, session, ed, txs, sn, rq>>

---------------------------------------------------------------------------
(* Bounds of the model                                                     *)

\* longest employee list handed to cluster_employees in SpecCluster
MaxClusterEmp == 4
\* homes of SpecCluster lie on the cells 0..MaxCell of a grid
MaxCell == 3
\* most stops handed to the solver in SpecSolve
MaxSolveStops == 2
\* most vehicles of either size offered in SpecSolve
MaxSolveFleet == 1

\* calls of the plan editor in a behaviour
MaxOps == 2

\* stop updates in one move request
MaxStopUpdates == 1

\* most coordinates in one batch snap of SpecSnap
MaxSnap == 3

---------------------------------------------------------------------------
(* Generic helpers                                                         *)

Abs(x) == IF x < 0 THEN -x ELSE x

Max2(a, b) == IF a >= b THEN a ELSE b

SetMin(S) == CHOOSE x \in S : \A y \in S : x <= y

SetMax(S) == CHOOSE x \in S : \A y \in S : x >= y

RECURSIVE SumSeq(_)
SumSeq(s) == IF s = <<>> THEN 0 ELSE Head(s) + SumSeq(Tail(s))

RECURSIVE FlatSeq(_)
FlatSeq(ss) == IF ss = <<>> THEN <<>> ELSE Head(ss) \o FlatSeq(Tail(ss))

SeqRange(s) == {s[i] : i \in 1..Len(s)}

\* the elements of the set of integers S in increasing order
RECURSIVE SortedSeq(_)
SortedSeq(S) == IF S = {} THEN <<>> ELSE <<SetMin(S)>> \o SortedSeq(S \ {SetMin(S)})

RECURSIVE Lcm1(_, _)
Lcm1(n, m) == IF \A k \in 1..n : m % k = 0 THEN m ELSE Lcm1(n, m + 1)

\* spacing of the grid of SpecCluster: the mean of up to MaxClusterEmp grid
\* points is a whole metre
Grid == Lcm1(MaxClusterEmp, 1)

\* geodesic(a, b).meters
Dist(a, b) == Abs(a - b)

\* np.mean over a non-empty list of coordinates
Mean(s) == SumSeq(s) \div Len(s)

MeanIsExact(s) == SumSeq(s) % Len(s) = 0

---------------------------------------------------------------------------
(* clustering_service.py                                                   *)

\* DBSCAN(min_samples=2)
MinSamples == 2

\* first cluster_id given to an individual stop
IndividualIdBase == 1000

\* sklearn DBSCAN, metric='precomputed': the eps-neighbourhood of point i
\* (i itself included), over the matrix of _calculate_distance_matrix
Neighbors(coords, eps, i) ==
    {j \in 1..Len(coords) : Dist(coords[i], coords[j]) <= eps}

IsCore(coords, eps, i) == Cardinality(Neighbors(coords, eps, i)) >= MinSamples

RECURSIVE Expand(_, _, _)
Expand(coords, eps, S) ==
    LET T == S \cup UNION {Neighbors(coords, eps, i) :
                              i \in {k \in S : IsCore(coords, eps, k)}}
    IN  IF T = S THEN S ELSE Expand(coords, eps, T)

\* the cluster grown from core point i
Component(coords, eps, i) == Expand(coords, eps, {i})

\* dbscan.fit_predict: -1 for noise, else clusters numbered 0, 1, ... in the
\* order of their first point
DbscanLabels(coords, eps) ==
    LET n == Len(coords)
        root(i) == SetMin(Component(coords, eps, i))
        cores == {i \in 1..n : IsCore(coords, eps, i)}
        inCluster(i) == \E c \in cores : i \in Component(coords, eps, c)
        rootOf(i) == SetMin({root(c) : c \in {k \in cores : i \in Component(coords, eps, k)}})
        roots == {rootOf(i) : i \in {k \in 1..n : inCluster(k)}}
    IN  [i \in 1..n |->
            IF inCluster(i)
            THEN Cardinality({r \in roots : r < rootOf(i)})
            ELSE -1]

\* the labels in the order in which the loop over enumerate(labels) first
\* meets them (the insertion order of the clusters dict)
LabelOrder(labels, keep) ==
    LET firstIdx(l) == SetMin({i \in DOMAIN labels : labels[i] = l /\ keep[i]})
        used == {labels[i] : i \in {k \in DOMAIN labels : keep[k]}}
        firsts == SortedSeq({firstIdx(l) : l \in used})
    IN  [k \in 1..Len(firsts) |-> labels[firsts[k]]]

\* indices of the members of cluster l, in input order
MembersOf(labels, keep, l) ==
    SortedSeq({i \in DOMAIN labels : labels[i] = l /\ keep[i]})

UnclusteredEntry(emps, i) ==
    [employee_id |-> emps[i].id, location |-> emps[i].lat]

\* cluster_with_dbscan
ClusterWithDbscan(emps, W) ==
    IF emps = <<>>
    THEN [stops |-> <<>>, unclustered |-> <<>>]
    ELSE
    LET n == Len(emps)
        coords == [i \in 1..n |-> emps[i].lat]
        labels == DbscanLabels(coords, W)
        keep == [i \in 1..n |-> labels[i] # -1]
        order == LabelOrder(labels, keep)
        noise == SortedSeq({i \in 1..n : labels[i] = -1})
        stopOf(l) ==
            LET mem == MembersOf(labels, keep, l)
                lats == [k \in 1..Len(mem) |-> coords[mem[k]]]
                centroid == Mean(lats)
            IN  [cluster_id |-> l,
                 location |-> centroid,
                 employee_count |-> Len(mem),
                 employee_ids |-> [k \in 1..Len(mem) |-> emps[mem[k]].id],
                 max_distance_to_centroid |->
                     SetMax({Dist(centroid, lats[k]) : k \in 1..Len(mem)} \cup {0}),
                 is_individual_stop |-> FALSE]
    IN  [stops |-> [k \in 1..Len(order) |-> stopOf(order[k])],
         unclustered |-> [k \in 1..Len(noise) |-> UnclusteredEntry(emps, noise[k])]]

\* n_clusters of cluster_with_constrained_kmeans, max_cluster_size = 27
KMeansMaxClusterSize == 27

KMeansK(n) ==
    Max2((n + KMeansMaxClusterSize - 1) \div KMeansMaxClusterSize, 2)

\* cluster_with_constrained_kmeans, given the labels KMeans.fit_predict
\* returned; cluster_centers_ is the mean of the points of each label
ClusterWithKMeans(emps, W, labels) ==
    IF emps = <<>>
    THEN [stops |-> <<>>, unclustered |-> <<>>]
    ELSE
    LET n == Len(emps)
        coords == [i \in 1..n |-> emps[i].lat]
        all == [i \in 1..n |-> TRUE]
        center(l) ==
            LET mem == MembersOf(labels, all, l)
            IN  Mean([k \in 1..Len(mem) |-> coords[mem[k]]])
        d(i) == Dist(coords[i], center(labels[i]))
        keep == [i \in 1..n |-> ~(d(i) > W)]
        order == LabelOrder(labels, keep)
        far == SortedSeq({i \in 1..n : ~keep[i]})
        stopOf(l) ==
            LET mem == MembersOf(labels, keep, l)
                lats == [k \in 1..Len(mem) |-> coords[mem[k]]]
            IN  [cluster_id |-> l,
                 location |-> Mean(lats),
                 employee_count |-> Len(mem),
                 employee_ids |-> [k \in 1..Len(mem) |-> emps[mem[k]].id],
                 max_distance_to_centroid |->
                     SetMax({d(mem[k]) : k \in 1..Len(mem)}),
                 is_individual_stop |-> FALSE]
    IN  [stops |-> [k \in 1..Len(order) |-> stopOf(order[k])],
         unclustered |-> [k \in 1..Len(far) |-> UnclusteredEntry(emps, far[k])]]

\* the first stop, in list order, within W of the employee (0 if none)
FirstStopWithin(stops, emp, W) ==
    LET near == {k \in 1..Len(stops) : Dist(emp.location, stops[k].location) <= W}
    IN  IF near = {} THEN 0 ELSE SetMin(near)

\* one pass of the first loop of refine_clusters_for_walking_distance
RECURSIVE AssignResidual(_, _, _, _)
AssignResidual(stops, unclustered, still, W) ==
    IF unclustered = <<>>
    THEN [stops |-> stops, still |-> still]
    ELSE
    LET emp == Head(unclustered)
        k == FirstStopWithin(stops, emp, W)
    IN  IF k = 0
        THEN AssignResidual(stops, Tail(unclustered), Append(still, emp), W)
        ELSE AssignResidual(
                [stops EXCEPT
                    ![k].employee_count = @ + 1,
                    ![k].employee_ids = Append(@, emp.employee_id),
                    ![k].max_distance_to_centroid =
                        Max2(@, Dist(emp.location, stops[k].location))],
                Tail(unclustered), still, W)

IndividualStop(emp, idx) ==
    [cluster_id |-> IndividualIdBase + idx,
     location |-> emp.location,
     employee_count |-> 1,
     employee_ids |-> <<emp.employee_id>>,
     max_distance_to_centroid |-> 0,
     is_individual_stop |-> TRUE]

\* refine_clusters_for_walking_distance without its second loop: the employees
\* no stop took in get no stop of their own
RefineClusters_NoIndividualStops(stops, unclustered, W) ==
    [stops |-> AssignResidual(stops, unclustered, <<>>, W).stops,
     unclustered |-> <<>>]

\* refine_clusters_for_walking_distance: (stops, still unclustered)
RefineClusters(stops, unclustered, W) ==
    LET a == AssignResidual(stops, unclustered, <<>>, W)
    IN  [stops |-> a.stops \o
                   [k \in 1..Len(a.still) |-> IndividualStop(a.still[k], k - 1)],
         unclustered |-> <<>>]

\* the tail of cluster_employees: refine only when something is unclustered
RefineIfNeeded(result, W) ==
    IF result.unclustered # <<>>
    THEN RefineClusters(result.stops, result.unclustered, W)
    ELSE result

\* cluster_employees(method="dbscan")
ClusterEmployeesDbscan(emps, W) == RefineIfNeeded(ClusterWithDbscan(emps, W), W)

\* cluster_employees(method="kmeans"), given the labels of KMeans
ClusterEmployeesKMeans(emps, W, labels) ==
    RefineIfNeeded(ClusterWithKMeans(emps, W, labels), W)

---------------------------------------------------------------------------
(* optimization_service.py                                                 *)

\* seats of the two vehicle types (FleetOptimizer.__init__)
SmallSeats == 16
LargeSeats == 27

\* capacity of the Distance dimension
MaxVehicleDistance == 1000000

\* the Time dimension's capacity is this many times max_route_duration
TimeCapFactor == 3

\* FleetOptimizer.__init__: vehicle_capacities, vehicle_types and
\* priority_vehicle_count by vehicle_priority
Fleet(num16, num27, priority, buffer) ==
    LET e16 == Max2(1, SmallSeats - buffer)
        e27 == Max2(1, LargeSeats - buffer)
        smalls == [k \in 1..num16 |-> [type |-> "16-seater", capacity |-> e16]]
        larges == [k \in 1..num27 |-> [type |-> "27-seater", capacity |-> e27]]
    IN  IF priority = "large"
        THEN [vehicles |-> larges \o smalls, priority_vehicle_count |-> num27]
        ELSE IF priority = "small"
        THEN [vehicles |-> smalls \o larges, priority_vehicle_count |-> num16]
        ELSE [vehicles |-> larges \o smalls, priority_vehicle_count |-> 0]

\* all orders of the nodes 1..n
Perms(n) == {p \in [1..n -> 1..n] : \A i, j \in 1..n : i # j => p[i] # p[j]}

\* what the routing model ranges over: every non-depot node on exactly one
\* vehicle, each vehicle's nodes in some order
Assignments(n, V) ==
    {[v \in 1..V |-> SelectSeq(perm, LAMBDA node : assign[node] = v)] :
        assign \in [1..n -> 1..V], perm \in Perms(n)}

\* sum of a transit matrix along depot -> nodes -> depot
RECURSIVE PathSum(_, _, _)
PathSum(M, from, nodes) ==
    IF nodes = <<>> THEN M[from][0]
    ELSE M[from][Head(nodes)] + PathSum(M, Head(nodes), Tail(nodes))

RouteTransit(M, nodes) == IF nodes = <<>> THEN 0 ELSE PathSum(M, 0, nodes)

\* a Python list as a function from 0
ZeroBased(s) == [i \in 0..(Len(s) - 1) |-> s[i + 1]]

RouteLoad(demands, nodes) == SumSeq([k \in 1..Len(nodes) |-> demands[nodes[k]]])

\* durations are held in 1/DurScale s, route distances in 1/DistScale m
DurScale == 625
DistScale == 5

\* int() of every entry of a matrix held in 1/scale
IntMatrix(M, scale) == [i \in DOMAIN M |-> [j \in DOMAIN M[i] |-> M[i][j] \div scale]]

\* _estimate_duration_matrix: int(d / (30 km/h in m/s)), in seconds
EstimateDuration(d) == (d * 3) \div 25

\* CVRPSolver.__init__: the duration matrix used
SolverDurations(dist, dur) ==
    IF dur = <<>>
    THEN [i \in DOMAIN dist |->
            [j \in DOMAIN dist[i] |-> EstimateDuration(dist[i][j]) * DurScale]]
    ELSE dur

\* the dimensions of CVRPSolver.solve without the Capacity dimension
RouteFeasible_NoCapacity(nodes, capacity, demands, dist, dur, tmax) ==
    /\ RouteTransit(dist, nodes) <= MaxVehicleDistance
    /\ RouteTransit(IntMatrix(dur, DurScale), nodes) <= TimeCapFactor * tmax

\* the Capacity, Distance and Time dimensions of CVRPSolver.solve.  (The arc
\* costs and the fixed cost of a vehicle are the objective: they say which
\* assignment the search likes best, not which ones are allowed.)
RouteFeasible(nodes, capacity, demands, dist, dur, tmax) ==
    /\ RouteLoad(demands, nodes) <= capacity
    /\ RouteTransit(dist, nodes) <= MaxVehicleDistance
    /\ RouteTransit(IntMatrix(dur, DurScale), nodes) <= TimeCapFactor * tmax

FeasibleAssignments(demands, caps, dist, dur, tmax) ==
    {a \in Assignments(Cardinality(DOMAIN demands) - 1, Len(caps)) :
        \A v \in 1..Len(caps) :
            RouteFeasible(a[v], caps[v], demands, dist, dur, tmax)}

NoSolution ==
    [routes |-> <<>>, distances |-> <<>>, loads |-> <<>>, total_distance |-> 0,
     vehicles_used |-> 0, status |-> "NO_SOLUTION"]
\* _extract_solution keeping the node list of a vehicle that never leaves the
\* depot, and counting it
ExtractRoute_KeepsDepotOnly(nodes, demands, dist) ==
    [route |-> <<0>> \o nodes \o <<0>>, distance |-> RouteTransit(dist, nodes),
     load |-> RouteLoad(demands, nodes), used |-> 1]

\* _extract_solution keeping only the vehicles that visit two stops or more
ExtractRoute_DropsSingleStop(nodes, demands, dist) ==
    LET route == <<0>> \o nodes \o <<0>>
    IN  IF Len(route) > 3
        THEN [route |-> route, distance |-> RouteTransit(dist, nodes),
              load |-> RouteLoad(demands, nodes), used |-> 1]
        ELSE [route |-> <<>>, distance |-> 0, load |-> 0, used |-> 0]

\* _extract_solution, one vehicle: the node list depot .. depot, kept only
\* if it visits a stop
ExtractRoute(nodes, demands, dist) ==
    LET route == <<0>> \o nodes \o <<0>>
    IN  IF Len(route) > 2
        THEN [route |-> route, distance |-> RouteTransit(dist, nodes),
              load |-> RouteLoad(demands, nodes), used |-> 1]
        ELSE [route |-> <<>>, distance |-> 0, load |-> 0, used |-> 0]

\* _extract_solution
ExtractSolution(a, demands, dist, status) ==
    LET r == [v \in 1..Len(a) |-> ExtractRoute(a[v], demands, dist)]
    IN  [routes |-> [v \in 1..Len(a) |-> r[v].route],
         distances |-> [v \in 1..Len(a) |-> r[v].distance],
         loads |-> [v \in 1..Len(a) |-> r[v].load],
         total_distance |-> SumSeq([v \in 1..Len(a) |-> r[v].distance]),
         vehicles_used |-> SumSeq([v \in 1..Len(a) |-> r[v].used]),
         status |-> status]

\* CVRPSolver.solve: the results it can return.  demands and the matrices
\* are indexed from 0, the depot.  With no vehicle at all the routing library
\* is handed an empty fleet: it either finds nothing or the call raises.
SolveOutcomes(demands, caps, dist, dur, tmax) ==
    LET feas == FeasibleAssignments(demands, caps, dist, SolverDurations(dist, dur), tmax)
    IN  IF caps = <<>>
        THEN {NoSolution, [NoSolution EXCEPT !.status = "RAISED"]}
        ELSE IF feas = {}
        THEN {NoSolution}
        ELSE {ExtractSolution(a, demands, dist, st) :
                 a \in feas, st \in {"OPTIMAL", "FEASIBLE"}}

\* FleetOptimizer.optimize: the solver's result with the fleet's types and
\* capacities added
Optimize(demands, fleet, dist, dur, tmax) ==
    LET caps == [v \in 1..Len(fleet.vehicles) |-> fleet.vehicles[v].capacity]
        types == [v \in 1..Len(fleet.vehicles) |-> fleet.vehicles[v].type]
        d0 == [demands EXCEPT ![0] = 0]
    IN  {sol @@ [vehicle_types |-> types, vehicle_capacities |-> caps] :
            sol \in SolveOutcomes(d0, caps, dist, dur, tmax)}

\* dict.get(key, default)
Get(d, key, default) == IF key \in DOMAIN d THEN d[key] ELSE default

\* an optional value: <<>> is None, <<x>> is x
None == <<>>

Some(x) == <<x>>

\* create_optimized_routes, the entry of the depot in a route's stop list
DepotEntry(idx, depot) ==
    [type |-> "depot", location |-> depot, order |-> idx, passengers |-> 0]

\* create_optimized_routes, the entry of a stop in a route's stop list
StopEntry(idx, stop) ==
    [type |-> "stop",
     stop_id |-> Get(stop, "cluster_id", None),
     location |-> stop.location,
     order |-> idx,
     passengers |-> stop.employee_count,
     employee_count |-> Get(stop, "employee_count", 0),
     employee_ids |-> Get(stop, "employee_ids", <<>>),
     employee_names |-> Get(stop, "employee_names", <<>>),
     employee_walking_distances |-> Get(stop, "employee_walking_distances", <<>>),
     road_name |-> Get(stop, "road_name", ""),
     max_walking_distance |-> Get(stop, "max_walking_distance", 0),
     original_location |-> Get(stop, "original_location", None)]

\* create_optimized_routes, the mapping of one solved vehicle to stop data
FormatRoute(solution, v, stops, depot) ==
    LET route == solution.routes[v]
    IN  [vehicle_id |-> v - 1,
         vehicle_type |-> solution.vehicle_types[v],
         vehicle_capacity |-> solution.vehicle_capacities[v],
         distance |-> solution.distances[v],
         load |-> solution.loads[v],
         stops |-> [k \in 1..Len(route) |->
                      IF route[k] = 0 THEN DepotEntry(k - 1, depot)
                      ELSE StopEntry(k - 1, stops[route[k]])]]

\* create_optimized_routes, given the result of solve_cvrp
FormatSolution(solution, stops, demands, depot) ==
    LET kept == SortedSeq({v \in 1..Len(solution.routes) :
                             ~(solution.routes[v] = <<>> \/ Len(solution.routes[v]) <= 2)})
    IN  [routes |-> [k \in 1..Len(kept) |-> FormatRoute(solution, kept[k], stops, depot)],
         total_distance |-> solution.total_distance,
         vehicles_used |-> solution.vehicles_used,
         status |-> solution.status,
         total_passengers |-> SumSeq([k \in 1..Len(stops) |-> demands[k]])]

\* demands of create_optimized_routes: [0] + employee_count of each stop
StopDemands(stops) ==
    ZeroBased(<<0>> \o [k \in 1..Len(stops) |-> stops[k].employee_count])

\* create_optimized_routes: the pairs (solver result, formatted result)
CreateOptimizedRoutes(stops, depot, dist, dur, num16, num27, priority, tmax, buffer) ==
    LET demands == StopDemands(stops)
    IN  {[solution |-> sol, formatted |-> FormatSolution(sol, stops, demands, depot)] :
            sol \in Optimize(demands, Fleet(num16, num27, priority, buffer),
                             dist, dur, tmax)}

---------------------------------------------------------------------------
(* osrm_service.py.  The routing engine is part of the world and does not  *)
(* change during a behaviour: engine.mode "up" answers every request,      *)
(* "down" fails every request so that the fallbacks run.  engine.roads is  *)
(* what the nearest service knows around any point: a list of              *)
(* [kind, shift] sorted by |shift|, a road of that kind passing shift      *)
(* metres from the point.  An engine that is up routes along the line,     *)
(* taking engine.pace (in 1/DurScale s) for a metre, and starts and ends   *)
(* its geometry on the nearest road.                                       *)

\* /nearest is asked for waypoints within max_distance = 500 m
SnapMaxDistance == 500

\* main roads are accepted up to 3 x max_distance
MainRoadFactor == 3

\* the fallbacks take 1.4 times the straight line (in 1/DistScale m per metre)
FallbackDetour == 7

\* ... driven at 30 km/h (in 1/DurScale s per metre: 1.4 * 3600 / 30000 s)
FallbackPace == 105

Geodesic(a, b) == Dist(a, b)

\* sum of the straight lines between consecutive coordinates
RECURSIVE LineLength(_)
LineLength(coords) ==
    IF Len(coords) < 2 THEN 0
    ELSE Geodesic(coords[1], coords[2]) + LineLength(Tail(coords))

\* the waypoints /nearest returns for a point, nearest first
Waypoints(eng, loc) ==
    [k \in 1..Len(eng.roads) |->
        [location |-> loc + eng.roads[k].shift,
         distance |-> Abs(eng.roads[k].shift),
         kind |-> eng.roads[k].kind]]

\* min(wps, key=distance): the first of the nearest
FirstMin(wps) ==
    wps[CHOOSE i \in 1..Len(wps) :
            /\ \A j \in 1..Len(wps) : wps[i].distance <= wps[j].distance
            /\ \A j \in 1..(i - 1) : wps[j].distance > wps[i].distance]

\* snap_to_road, the choice among the waypoints (prefer_main_roads)
SelectWaypoint(waypoints, max_distance) ==
    LET main_road_max_distance == max_distance * MainRoadFactor
        main_road_waypoints ==
            SelectSeq(waypoints, LAMBDA wp :
                wp.kind = "main" /\ wp.distance <= main_road_max_distance)
        non_sokak_waypoints ==
            SelectSeq(waypoints, LAMBDA wp :
                wp.kind # "small" /\ wp.distance <= main_road_max_distance)
        within == SelectSeq(waypoints, LAMBDA wp : wp.distance <= max_distance)
    IN  IF main_road_waypoints # <<>> THEN FirstMin(main_road_waypoints)
        ELSE IF non_sokak_waypoints # <<>> THEN FirstMin(non_sokak_waypoints)
        ELSE IF within # <<>> THEN within[1]
        ELSE waypoints[1]

\* OSRMService.snap_to_road
SnapToRoad(eng, loc) ==
    IF eng.mode \in {"up", "no_durations"} /\ eng.roads # <<>>
    THEN LET wp == SelectWaypoint(Waypoints(eng, loc), SnapMaxDistance)
         IN  [original |-> loc, snapped |-> wp.location,
              walking_distance |-> wp.distance, road_name |-> wp.kind,
              valid |-> TRUE]
    ELSE [original |-> loc, snapped |-> loc, walking_distance |-> 0,
          road_name |-> "", valid |-> FALSE]

\* OSRMService.snap_multiple_to_road: gather keeps the order of the tasks
SnapMultipleToRoad(eng, coords) ==
    [k \in 1..Len(coords) |-> SnapToRoad(eng, coords[k])]

\* a matrix over coordinates, per units for every metre, indexed from 0
CoordMatrix(coords, per) ==
    [i \in 0..(Len(coords) - 1) |-> [j \in 0..(Len(coords) - 1) |->
        Geodesic(coords[i + 1], coords[j + 1]) * per]]

\* OSRMService._fallback_distance_matrix
FallbackDistanceMatrix(coords) ==
    [distances |-> CoordMatrix(coords, 1),
     durations |-> CoordMatrix(coords, FallbackPace),
     valid |-> FALSE, fallback |-> TRUE]

\* What the engine answers, eng.mode:
\*   "up"         200, code "Ok", the arrays or the routes list present
\*   "down"       no answer (connection refused, timeout): httpx.HTTPError
\*   "status"     an HTTP error status: raise_for_status raises
\*   "not_ok"     200 with a code other than "Ok"
\*   "no_body"    200, code "Ok", no distances, durations or routes key
\*   "no_routes"  200, code "Ok", empty arrays or an empty routes list
\*   "no_durations"  as "up", but the table answer has no durations key
\* data.get("distances", []) gives [] for a missing key as for an empty array;
\* data.get("routes", [{}])[0] gives {} for a missing key and raises
\* IndexError, caught by except Exception, for an empty list.

\* OSRMService.get_distance_matrix
GetDistanceMatrix(eng, coords) ==
    IF Len(coords) < 2
    THEN [distances |-> ZeroBased(<<ZeroBased(<<0>>)>>),
          durations |-> ZeroBased(<<ZeroBased(<<0>>)>>),
          valid |-> TRUE, fallback |-> FALSE]
    ELSE IF eng.mode = "up"
    THEN [distances |-> CoordMatrix(coords, 1),
          durations |-> CoordMatrix(coords, eng.pace),
          valid |-> TRUE, fallback |-> FALSE]
    ELSE IF eng.mode = "no_durations"
    THEN [distances |-> CoordMatrix(coords, 1), durations |-> <<>>,
          valid |-> TRUE, fallback |-> FALSE]
    ELSE IF eng.mode \in {"no_body", "no_routes"}
    THEN [distances |-> <<>>, durations |-> <<>>,
          valid |-> TRUE, fallback |-> FALSE]
    ELSE FallbackDistanceMatrix(coords)

\* OSRMService._fallback_route
FallbackRoute(coords) ==
    [geometry |-> coords,
     distance |-> LineLength(coords) * FallbackDetour,
     duration |-> LineLength(coords) * FallbackPace,
     legs |-> <<>>, fallback |-> TRUE]

\* where the engine puts a waypoint of a route: on the nearest road
RouteWaypoint(eng, c) == IF eng.roads = <<>> THEN c ELSE c + eng.roads[1].shift

\* OSRMService.get_route
GetRoute(eng, coords) ==
    IF Len(coords) < 2
    THEN [geometry |-> <<>>, distance |-> 0, duration |-> 0, legs |-> <<>>,
          fallback |-> FALSE]
    ELSE IF eng.mode \in {"up", "no_durations"}
    THEN [geometry |-> [k \in 1..Len(coords) |-> RouteWaypoint(eng, coords[k])],
          distance |-> LineLength(coords) * DistScale,
          duration |-> LineLength(coords) * eng.pace,
          legs |-> [k \in 1..(Len(coords) - 1) |->
                      [distance |-> Geodesic(coords[k], coords[k + 1]) * DistScale,
                       duration |-> Geodesic(coords[k], coords[k + 1]) * eng.pace]],
          fallback |-> FALSE]
    ELSE IF eng.mode = "no_body"
    THEN [geometry |-> <<>>, distance |-> 0, duration |-> 0, legs |-> <<>>,
          fallback |-> FALSE]
    ELSE FallbackRoute(coords)

\* TRAFFIC_SCALING_FACTORS.get(mode, 1.0), in tenths
TrafficFactor(mode) ==
    IF mode = "morning" THEN 14 ELSE IF mode = "evening" THEN 16 ELSE 10

\* x * factor for a factor in tenths
Times(x, factor) == (x * factor) \div 10

\* round() of a value held in 1/scale
Round(x, scale) == (2 * x + scale) \div (2 * scale)

---------------------------------------------------------------------------
(* api/simulations.py: create_simulation                                   *)

\* the retry loop runs range(max_retries)
MaxRetries == 5

\* the rows of table shifts
ShiftIds == {1, 2}

EmptyTables == [simulations |-> <<>>, simulation_routes |-> <<>>]

NoResponse == [status |-> 0, detail |-> "", id |-> 0]

HttpError(code, why) == [status |-> code, detail |-> why, id |-> 0]

\* the locals of create_simulation and the line it stands at
CrStart ==
    [pc |-> "start", employees |-> <<>>, stops |-> <<>>,
     distances |-> <<>>, duration_matrix |-> <<>>, max_route_duration |-> 0,
     num_16 |-> 0, num_27 |-> 0, attempt |-> 0, calls |-> 0,
     optimization_result |-> <<>>, routes_with_geometry |-> <<>>,
     simulation_id |-> 0]

\* the handler has returned or raised: its locals are gone, the number of
\* solver calls it made is kept for the record
CrDone(calls) == [CrStart EXCEPT !.pc = "done", !.calls = calls]

\* SELECT ... FROM employees [WHERE shift_id = :shift_id]
SelectEmployees(table, shift_id) ==
    IF shift_id = None THEN table
    ELSE SelectSeq(table, LAMBDA e : e.shift_id = shift_id[1])

\* the employee with this id in a list of rows (None if there is none)
EmployeeLookup(rows, emp_id) ==
    LET hit == SelectSeq(rows, LAMBDA e : e.id = emp_id)
    IN  IF hit = <<>> THEN None ELSE Some(hit[1])

\* names of the members that are in the lookup
NamesOf(rows, ids) ==
    LET known == SelectSeq(ids, LAMBDA i : EmployeeLookup(rows, i) # None)
    IN  [k \in 1..Len(known) |-> EmployeeLookup(rows, known[k])[1].name]

\* [employee_id, walking_distance] of the members that are in the lookup
WalksOf(rows, ids, loc) ==
    LET known == SelectSeq(ids, LAMBDA i : EmployeeLookup(rows, i) # None)
    IN  [k \in 1..Len(known) |->
            [employee_id |-> known[k],
             walking_distance |->
                 Geodesic(EmployeeLookup(rows, known[k])[1].lat, loc)]]

MaxWalk(walks) ==
    IF walks = <<>> THEN 0
    ELSE SetMax({walks[k].walking_distance : k \in 1..Len(walks)})

\* step 2.5 for one stop and its snap result
SnapStop(stop, snap_result, rows) ==
    LET ids == Get(stop, "employee_ids", <<>>)
        names == [employee_names |-> NamesOf(rows, ids)]
    IN  IF snap_result.valid
        THEN LET walks == WalksOf(rows, ids, snap_result.snapped)
             IN  [original_location |-> Some(stop.location),
                  location |-> snap_result.snapped,
                  road_name |-> snap_result.road_name,
                  max_walking_distance |-> MaxWalk(walks),
                  employee_walking_distances |-> walks] @@ names @@ stop
        ELSE [max_walking_distance |-> Get(stop, "max_distance_to_centroid", 0)]
             @@ names @@ stop

\* the duration matrix handed to the solver: int(d * traffic_factor)
ScaleDurations(durations, factor) ==
    IF durations # <<>> /\ factor # 10
    THEN [i \in DOMAIN durations |-> [j \in DOMAIN durations[i] |->
            (Times(durations[i][j], factor) \div DurScale) * DurScale]]
    ELSE durations

\* int(max_travel_time * 60 * traffic_factor)
MaxRouteDuration(max_travel_time, factor) == (max_travel_time * 60 * factor) \div 10

\* the test of the retry loop and of the check after it
Succeeded(result) == result.status # "NO_SOLUTION" /\ result.vehicles_used > 0

\* route_coords of step 5, by route type
CreateRouteCoords(route_type, depot, stop_coords) ==
    IF route_type = "ring" THEN <<depot>> \o stop_coords \o <<depot>>
    ELSE IF route_type = "to_home" THEN <<depot>> \o stop_coords
    ELSE stop_coords \o <<depot>>

\* sum of a field over legs[from..to]
LegSum(legs, field, from, to) ==
    SumSeq([k \in 1..Max2(0, to - from + 1) |-> legs[from + k - 1][field]])

\* step 5, the distance and duration to (or from) the depot of the k-th stop
StopWithLegs(stop, k, legs, route_type, factor) ==
    LET L == Len(legs)
        kk == IF k <= L THEN k ELSE L
    IN  IF route_type = "to_depot"
        THEN [distance_to_depot |-> Some(Round(LegSum(legs, "distance", k, L), DistScale)),
              duration_to_depot |->
                  Some(Round(Times(LegSum(legs, "duration", k, L), factor), DurScale))]
             @@ stop
        ELSE IF route_type = "to_home"
        THEN [distance_from_depot |-> Some(Round(LegSum(legs, "distance", 1, kk), DistScale)),
              duration_from_depot |->
                  Some(Round(Times(LegSum(legs, "duration", 1, kk), factor), DurScale)),
              distance_to_depot |-> Some(0), duration_to_depot |-> Some(0)]
             @@ stop
        ELSE [distance_to_depot |-> Some(Round(LegSum(legs, "distance", k + 1, L), DistScale)),
              duration_to_depot |->
                  Some(Round(Times(LegSum(legs, "duration", k + 1, L), factor), DurScale))]
             @@ stop

\* step 5, "Build polyline with proper start/end points"
EnsureEndpoints(osrm_polyline, route_type, depot) ==
    LET front == IF osrm_polyline[1] # depot THEN <<depot>> \o osrm_polyline
                 ELSE osrm_polyline
        back(p) == IF p[Len(p)] # depot THEN Append(p, depot) ELSE p
    IN  IF osrm_polyline = <<>> THEN <<depot>>
        ELSE IF route_type = "ring" THEN back(front)
        ELSE IF route_type = "to_home" THEN front
        ELSE back(osrm_polyline)

\* step 5 for one route of the optimization result
RouteWithGeometry(eng, route, route_type, depot, factor) ==
    LET actual_stops == SelectSeq(route.stops, LAMBDA s : s.type # "depot")
        stop_coords == [k \in 1..Len(actual_stops) |-> actual_stops[k].location]
        route_coords == CreateRouteCoords(route_type, depot, stop_coords)
        route_geometry == GetRoute(eng, route_coords)
        legs == route_geometry.legs
        with_legs ==
            IF legs # <<>> /\ Len(actual_stops) > 0
            THEN [k \in 1..Len(actual_stops) |->
                     StopWithLegs(actual_stops[k], k, legs, route_type, factor)]
            ELSE actual_stops
    IN  IF Len(route_coords) >= 2
        THEN [polyline |-> EnsureEndpoints(route_geometry.geometry, route_type, depot),
              distance |-> route_geometry.distance,
              duration |-> Times(route_geometry.duration, factor),
              stops |-> with_legs] @@ route
        ELSE [polyline |-> <<>>, duration |-> 0, stops |-> actual_stops] @@ route

\* step 6, the row inserted into simulations
PlanRow(id, p, result, routes, num_16, num_27) ==
    [id |-> id,
     total_vehicles |-> result.vehicles_used,
     total_distance |-> SumSeq([k \in 1..Len(routes) |-> routes[k].distance]),
     total_duration |-> SumSeq([k \in 1..Len(routes) |-> routes[k].duration]),
     total_passengers |-> result.total_passengers,
     max_walking_distance |-> p.max_walking_distance,
     depot_lat |-> p.depot_location,
     traffic_mode |-> p.traffic_mode,
     buffer_seats |-> p.buffer_seats,
     vehicle_priority |-> IF p.vehicle_priority = None THEN "auto"
                          ELSE p.vehicle_priority[1],
     max_travel_time |-> p.max_travel_time,
     num_16_seaters |-> num_16,
     num_27_seaters |-> num_27,
     shift_id |-> p.shift_id,
     route_type |-> p.route_type]

\* step 7, the row inserted into simulation_routes
RouteRow(id, simulation_id, route) ==
    [id |-> id,
     simulation_id |-> simulation_id,
     vehicle_id |-> route.vehicle_id,
     vehicle_type |-> route.vehicle_type,
     capacity |-> route.vehicle_capacity,
     passengers |-> route.load,
     distance |-> route.distance,
     duration |-> route.duration,
     polyline |-> route.polyline,
     stops |-> route.stops]

EdIdle == <<>>

TxIdle == <<>>

\* no batch snap in play
SnIdle == <<>>

\* no single call of the engine client in play
RqIdle == <<>>

\* nothing of the request pipeline is in play
PipelineIdle ==
    /\ employees = <<>>
    /\ engine = [mode |-> "down", roads |-> <<>>, pace |-> 0]
    /\ params = <<>>
    /\ cr = CrDone(0)
    /\ response = NoResponse
    /\ db = EmptyTables
    /\ session = EmptyTables
    /\ ed = EdIdle
    /\ txs = TxIdle
    /\ sn = SnIdle
    /\ rq = RqIdle

\* the handler raises an HTTPException: nothing was written, get_db closes
\* the session
RaiseHttp(code, why) ==
    /\ response' = HttpError(code, why)
    /\ cr' = CrDone(cr.calls)
    /\ session' = EmptyTables
    /\ UNCHANGED db

\* except Exception: db.rollback(), then HTTPException(500)
RollbackAndRaise ==
    /\ response' = HttpError(500, "exception")
    /\ cr' = CrDone(cr.calls)
    /\ session' = EmptyTables
    /\ UNCHANGED db

\* ensure_simulation_tables, the shift lookup and step 1
LoadEmployees ==
    /\ cr.pc = "start"
    /\ LET rows == SelectEmployees(employees, params.shift_id)
       IN  IF params.shift_id # None /\ params.shift_id[1] \notin ShiftIds
           THEN RaiseHttp(400, "shift not found")
           ELSE IF rows = <<>>
           THEN RaiseHttp(400, "no employees")
           ELSE /\ cr' = [cr EXCEPT !.pc = "cluster", !.employees = rows]
                /\ UNCHANGED <<response, db, session>>
    /\ UNCHANGED <<aside, ed, txs, employees, engine, params>>

\* step 2
ClusterStops ==
    /\ cr.pc = "cluster"
    /\ LET stops == ClusterEmployeesDbscan(cr.employees, params.max_walking_distance).stops
       IN  IF stops = <<>>
           THEN RaiseHttp(400, "no stops")
           ELSE /\ cr' = [cr EXCEPT !.pc = "snap", !.stops = stops]
                /\ UNCHANGED <<response, db, session>>
    /\ UNCHANGED <<aside, ed, txs, employees, engine, params>>

\* step 2.5
SnapStops ==
    /\ cr.pc = "snap"
    /\ LET stop_coords == [k \in 1..Len(cr.stops) |-> cr.stops[k].location]
           snapped_results == SnapMultipleToRoad(engine, stop_coords)
       IN  cr' = [cr EXCEPT !.pc = "matrix",
                            !.stops = [k \in 1..Len(cr.stops) |->
                                SnapStop(cr.stops[k], snapped_results[k], cr.employees)]]
    /\ UNCHANGED <<aside, ed, txs, employees, engine, params, response, db, session>>

\* step 3, the traffic scaling and the start of step 4
BuildMatrix ==
    /\ cr.pc = "matrix"
    /\ LET coordinates == <<params.depot_location>> \o
                          [k \in 1..Len(cr.stops) |-> cr.stops[k].location]
           matrix_result == GetDistanceMatrix(engine, coordinates)
           traffic_factor == TrafficFactor(params.traffic_mode)
       IN  cr' = [cr EXCEPT
                    !.pc = "solve",
                    !.distances = matrix_result.distances,
                    !.duration_matrix = ScaleDurations(matrix_result.durations, traffic_factor),
                    !.max_route_duration =
                        MaxRouteDuration(params.max_travel_time, traffic_factor),
                    !.num_16 = params.use_16_seaters,
                    !.num_27 = params.use_27_seaters,
                    !.attempt = 0]
    /\ UNCHANGED <<aside, ed, txs, employees, engine, params, response, db, session>>

\* params.vehicle_priority or default
PriorityOr(priority, default) == IF priority = None THEN default ELSE priority[1]

\* the fleet of the next attempt if every priority were enlarged like auto
Enlarged_OneEach(c, priority) == [c EXCEPT !.num_16 = @ + 1, !.num_27 = @ + 1]

\* the fleet of the next attempt
Enlarged(c, priority) ==
    IF priority = "small" THEN [c EXCEPT !.num_16 = @ + 2]
    ELSE IF priority = "large" THEN [c EXCEPT !.num_27 = @ + 2]
    ELSE [c EXCEPT !.num_16 = @ + 1, !.num_27 = @ + 1]

\* the retry loop going on after an attempt that succeeded
AfterAttempt_NoBreak(c, result, priority) ==
    LET called == [c EXCEPT !.optimization_result = result, !.calls = @ + 1]
        more == IF Succeeded(result) THEN called ELSE Enlarged(called, priority)
    IN  [more EXCEPT !.attempt = @ + 1,
                     !.pc = IF c.attempt + 1 = MaxRetries THEN "check" ELSE "solve"]

\* step 4, the body of the retry loop after create_optimized_routes returned
AfterAttempt(c, result, priority) ==
    LET called == [c EXCEPT !.optimization_result = result, !.calls = @ + 1]
    IN  IF Succeeded(result)
        THEN [called EXCEPT !.pc = "check"]
        ELSE [Enlarged(called, priority) EXCEPT
                !.attempt = @ + 1,
                !.pc = IF c.attempt + 1 = MaxRetries THEN "check" ELSE "solve"]

\* one turn of the retry loop of step 4; an exception of the routing library
\* goes to "except Exception"
SolveAttempt ==
    /\ cr.pc = "solve"
    /\ cr.attempt < MaxRetries
    /\ \E r \in CreateOptimizedRoutes(cr.stops, params.depot_location, cr.distances,
                    cr.duration_matrix, cr.num_16, cr.num_27,
                    PriorityOr(params.vehicle_priority, "auto"),
                    cr.max_route_duration, params.buffer_seats) :
          IF r.solution.status = "RAISED"
          THEN /\ response' = HttpError(500, "exception")
               /\ cr' = CrDone(cr.calls + 1)
               /\ session' = EmptyTables
               /\ UNCHANGED db
          ELSE /\ cr' = AfterAttempt(cr, r.formatted,
                            PriorityOr(params.vehicle_priority, ""))
               /\ UNCHANGED <<response, db, session>>
    /\ UNCHANGED <<aside, ed, txs, employees, engine, params>>

\* the check after the loop, when no attempt succeeded
RaiseNoSolution ==
    /\ cr.pc = "check"
    /\ ~Succeeded(cr.optimization_result)
    /\ RaiseHttp(400, "time constraint infeasible")
    /\ UNCHANGED <<aside, ed, txs, employees, engine, params>>

\* step 5
BuildGeometry ==
    /\ cr.pc = "check"
    /\ Succeeded(cr.optimization_result)
    /\ LET routes == cr.optimization_result.routes
       IN  cr' = [cr EXCEPT
                    !.pc = "insert_plan",
                    !.routes_with_geometry = [k \in 1..Len(routes) |->
                        RouteWithGeometry(engine, routes[k], params.route_type,
                            params.depot_location, TrafficFactor(params.traffic_mode))]]
    /\ UNCHANGED <<aside, ed, txs, employees, engine, params, response, db, session>>

\* step 6 followed by a commit of its own
InsertPlan_Commits ==
    /\ cr.pc = "insert_plan"
    /\ LET id == Len(db.simulations) + 1
       IN  /\ db' = [db EXCEPT !.simulations =
                  Append(@, PlanRow(id, params, cr.optimization_result,
                      cr.routes_with_geometry, cr.num_16, cr.num_27))]
           /\ cr' = [cr EXCEPT !.pc = "insert_routes", !.simulation_id = id]
    /\ UNCHANGED <<aside, ed, txs, employees, engine, params, response, session>>

\* step 6: INSERT INTO simulations ... RETURNING id
InsertPlan ==
    /\ cr.pc = "insert_plan"
    /\ LET id == Len(db.simulations) + 1
       IN  /\ session' = [session EXCEPT !.simulations =
                  Append(@, PlanRow(id, params, cr.optimization_result,
                      cr.routes_with_geometry, cr.num_16, cr.num_27))]
           /\ cr' = [cr EXCEPT !.pc = "insert_routes", !.simulation_id = id]
    /\ UNCHANGED <<aside, ed, txs, employees, engine, params, response, db>>

\* step 7, one turn of the loop: INSERT INTO simulation_routes
InsertRoute ==
    /\ cr.pc = "insert_routes"
    /\ Len(session.simulation_routes) < Len(cr.routes_with_geometry)
    /\ LET k == Len(session.simulation_routes) + 1
           id == Len(db.simulation_routes) + k
       IN  session' = [session EXCEPT !.simulation_routes =
               Append(@, RouteRow(id, cr.simulation_id, cr.routes_with_geometry[k]))]
    /\ UNCHANGED <<aside, ed, txs, employees, engine, params, cr, response, db>>

\* db.commit() and the summary returned
CommitPlan ==
    /\ cr.pc = "insert_routes"
    /\ Len(session.simulation_routes) = Len(cr.routes_with_geometry)
    /\ db' = [simulations |-> db.simulations \o session.simulations,
              simulation_routes |-> db.simulation_routes \o session.simulation_routes]
    /\ session' = EmptyTables
    /\ response' = [status |-> 200, detail |-> "created", id |-> cr.simulation_id]
    /\ cr' = CrDone(cr.calls)
    /\ UNCHANGED <<aside, ed, txs, employees, engine, params>>

\* a statement of step 6, step 7 or the commit fails in the database
DbStatementFails ==
    /\ cr.pc \in {"insert_plan", "insert_routes"}
    /\ RollbackAndRaise
    /\ UNCHANGED <<aside, ed, txs, employees, engine, params>>

---------------------------------------------------------------------------
(* the requests to the plan editor                                         *)

\* stops: a list of [stop_index, lat]; index 3 is beyond every route.  1510
\* is 300 m from the home of employee 13, 2010 is far from every home.
StopUpdateSet ==
    {[stop_index |-> i, lat |-> 2010] : i \in {0, 3}}
        \cup {[stop_index |-> 0, lat |-> 1510]}

MoveRequests == UNION {[1..n -> StopUpdateSet] : n \in 0..MaxStopUpdates}

\* first_stop_index: an int, so it may be negative
ReorderRequests == {-1, 0, 1, 3}

\* employee_id: in the plan, of the other shift near and far, unknown
AddRequests == {1, 13, 14, 99}

RemoveRequests == {1, 12, 99}

---------------------------------------------------------------------------
(* api/simulations.py: the plan editor.  Each handler is an operator from  *)
(* the committed tables and its request to [db, response]: the tables it   *)
(* leaves committed and what it answers.  Stop indexes in requests count   *)
(* from 0, as in the source.  The *_percent fields of the previews are     *)
(* functions of the old values and the diffs and are left out.             *)

\* _build_employee_stop joins a stop at most this far from the home
AddThreshold == 400

\* add-employee: capacity = route.capacity or 99
DefaultCapacity == 99

\* the answer to a request whose handler raised HTTPException(code, why)
Raised(code, why) == [status |-> code, detail |-> why, body |-> <<>>]

\* raise HTTPException(code, why): nothing is written
EditRaise(d, code, why) == [db |-> d, response |-> Raised(code, why)]

\* return {...}
EditReturn(d, body) ==
    [db |-> d, response |-> [status |-> 200, detail |-> "", body |-> body]]

\* SELECT ... FROM simulations WHERE id = :sim_id, fetchone()
SelectSimulation(d, sim_id) ==
    LET hit == SelectSeq(d.simulations, LAMBDA p : p.id = sim_id)
    IN  IF hit = <<>> THEN None ELSE Some(hit[1])

\* SELECT ... FROM simulation_routes WHERE id = :route_id
\*     AND simulation_id = :sim_id, fetchone()
SelectRoute(d, route_id, sim_id) ==
    LET hit == SelectSeq(d.simulation_routes,
                         LAMBDA r : r.id = route_id /\ r.simulation_id = sim_id)
    IN  IF hit = <<>> THEN None ELSE Some(hit[1])

\* route_coords of every edit: depot -> stops -> depot
EditRouteCoords(depot, stops) ==
    <<depot>> \o [k \in 1..Len(stops) |-> stops[k].location] \o <<depot>>

\* the previews: new_distance and new_duration from get_route
PreviewRoute_NoTraffic(eng, route_coords, traffic_factor) ==
    LET route_data == GetRoute(eng, route_coords)
    IN  [new_distance |-> route_data.distance,
         new_duration |-> route_data.duration]

PreviewRoute(eng, route_coords, traffic_factor) ==
    LET route_data == GetRoute(eng, route_coords)
    IN  [new_distance |-> route_data.distance,
         new_duration |-> Times(route_data.duration, traffic_factor)]

\* the commits: new_distance, new_duration and new_polyline from get_route
CommitRoute(eng, route_coords, traffic_factor) ==
    LET route_data == GetRoute(eng, route_coords)
    IN  [distance |-> route_data.distance,
         duration |-> Times(route_data.duration, traffic_factor),
         polyline |-> route_data.geometry]

\* what a preview returns
PreviewBody(route, new) ==
    [old_distance |-> route.distance,
     old_duration |-> route.duration,
     new_distance |-> new.new_distance,
     new_duration |-> new.new_duration,
     distance_diff |-> new.new_distance - route.distance,
     duration_diff |-> new.new_duration - route.duration]
\* the UPDATE of simulation_routes without its WHERE clause
UpdateRoute_EveryRow(d, route_id, fields) ==
    [d EXCEPT !.simulation_routes = [k \in 1..Len(@) |-> fields @@ @[k]]]

\* UPDATE simulation_routes SET ... WHERE id = :route_id
UpdateRoute(d, route_id, fields) ==
    [d EXCEPT !.simulation_routes =
        [k \in 1..Len(@) |-> IF @[k].id = route_id THEN fields @@ @[k] ELSE @[k]]]

\* SELECT SUM(field) FROM simulation_routes WHERE simulation_id = :sim_id,
\* and the "or 0" of the caller
SumField(d, sim_id, field) ==
    LET rows == SelectSeq(d.simulation_routes, LAMBDA r : r.simulation_id = sim_id)
    IN  SumSeq([k \in 1..Len(rows) |-> rows[k][field]])

\* "Update simulation totals" left out
UpdateTotals_Skipped(d, sim_id, with_passengers) == d

\* "Update simulation totals", the SELECT SUM; add and remove also sum the
\* passengers
SelectTotals(d, sim_id, with_passengers) ==
    LET sums == [total_distance |-> SumField(d, sim_id, "distance"),
                 total_duration |-> SumField(d, sim_id, "duration")]
        pass == [total_passengers |-> SumField(d, sim_id, "passengers")]
    IN  IF with_passengers THEN sums @@ pass ELSE sums

\* UPDATE simulations SET ... WHERE id = :sim_id
UpdateSimulation(d, sim_id, fields) ==
    [d EXCEPT !.simulations =
        [k \in 1..Len(@) |-> IF @[k].id = sim_id THEN fields @@ @[k] ELSE @[k]]]

\* "Update simulation totals": the SELECT SUM and the UPDATE simulations
UpdateTotals(d, sim_id, with_passengers) ==
    UpdateSimulation(d, sim_id, SelectTotals(d, sim_id, with_passengers))

\* the route UPDATE, the totals UPDATE and the commit of a commit handler
CommitEdit(d, sim_id, route_id, fields, with_passengers) ==
    UpdateTotals(UpdateRoute(d, route_id, fields), sim_id, with_passengers)

\* 0 <= stop_idx < len(stops)
InRange(stop_idx, stops) == 0 <= stop_idx /\ stop_idx < Len(stops)

\* preview_route_update: the loop over stop_updates (a dict: of two updates
\* of one index the later one stays)
RECURSIVE PreviewStopUpdates(_, _)
PreviewStopUpdates(stops, updates) ==
    IF updates = <<>> THEN stops
    ELSE LET u == Head(updates)
         IN  PreviewStopUpdates(
                IF InRange(u.stop_index, stops)
                THEN [stops EXCEPT ![u.stop_index + 1] =
                         [location |-> u.lat] @@ @]
                ELSE stops,
                Tail(updates))
\* update_route_stops writing the moved stop without the names of its members
MovedStop_Nameless(stop, lat, rows) ==
    [location |-> lat, employee_names |-> <<>>,
     road_name |-> "Manuel duzenleme"] @@ stop

\* update_route_stops: one stop moved, its walking distances recalculated
MovedStop(stop, lat, rows) ==
    LET employee_walks == WalksOf(rows, Get(stop, "employee_ids", <<>>), lat)
    IN  [location |-> lat,
         employee_walking_distances |-> employee_walks,
         max_walking_distance |-> MaxWalk(employee_walks),
         road_name |-> "Manuel duzenleme"] @@ stop

\* update_route_stops: the loop over stop_updates
RECURSIVE CommitStopUpdates(_, _, _)
CommitStopUpdates(stops, updates, rows) ==
    IF updates = <<>> THEN stops
    ELSE LET u == Head(updates)
         IN  CommitStopUpdates(
                IF InRange(u.stop_index, stops)
                THEN [stops EXCEPT ![u.stop_index + 1] = MovedStop(@, u.lat, rows)]
                ELSE stops,
                Tail(updates), rows)

\* preview_route_update
PreviewRouteUpdate(d, rows, eng, simulation_id, route_id, request) ==
    LET sim == SelectSimulation(d, simulation_id)
        route == SelectRoute(d, route_id, simulation_id)
    IN  IF sim = None THEN EditRaise(d, 404, "Simulasyon bulunamadi")
        ELSE IF route = None THEN EditRaise(d, 404, "Rota bulunamadi")
        ELSE
        LET updated_stops == PreviewStopUpdates(route[1].stops, request)
            route_coords == EditRouteCoords(sim[1].depot_lat, updated_stops)
        IN  EditReturn(d, PreviewBody(route[1],
                PreviewRoute(eng, route_coords, TrafficFactor(sim[1].traffic_mode))))

\* update_route_stops up to its first UPDATE: what it raises, or the values
\* it is about to write to the route row
UpdateRouteStopsRead(d, rows, eng, simulation_id, route_id, request) ==
    LET sim == SelectSimulation(d, simulation_id)
        route == SelectRoute(d, route_id, simulation_id)
    IN  IF sim = None
        THEN [raised |-> Some(Raised(404, "Simulasyon bulunamadi")), fields |-> <<>>]
        ELSE IF route = None
        THEN [raised |-> Some(Raised(404, "Rota bulunamadi")), fields |-> <<>>]
        ELSE
        LET existing_stops == CommitStopUpdates(route[1].stops, request, rows)
            route_coords == EditRouteCoords(sim[1].depot_lat, existing_stops)
            new == CommitRoute(eng, route_coords, TrafficFactor(sim[1].traffic_mode))
        IN  [raised |-> None, fields |-> new @@ [stops |-> existing_stops]]

\* update_route_stops
UpdateRouteStops(d, rows, eng, simulation_id, route_id, request) ==
    LET read == UpdateRouteStopsRead(d, rows, eng, simulation_id, route_id, request)
    IN  IF read.raised # None
        THEN [db |-> d, response |-> read.raised[1]]
        ELSE EditReturn(CommitEdit(d, simulation_id, route_id, read.fields, FALSE),
                        [route_id |-> route_id] @@ read.fields)
\* the stop at index i taken to the front, the others left in their order
Rotate_ToFront(stops, i) ==
    <<stops[i + 1]>> \o SubSeq(stops, 1, i) \o SubSeq(stops, i + 2, Len(stops))

\* existing_stops[i:] + existing_stops[:i]
Rotate(stops, i) == SubSeq(stops, i + 1, Len(stops)) \o SubSeq(stops, 1, i)

\* preview_route_reorder
PreviewRouteReorder(d, rows, eng, simulation_id, route_id, first_stop_index) ==
    LET sim == SelectSimulation(d, simulation_id)
        route == SelectRoute(d, route_id, simulation_id)
    IN  IF sim = None THEN EditRaise(d, 404, "Simulasyon bulunamadi")
        ELSE IF route = None THEN EditRaise(d, 404, "Rota bulunamadi")
        ELSE IF ~InRange(first_stop_index, route[1].stops)
        THEN EditRaise(d, 400, "Gecersiz durak indeksi")
        ELSE
        LET reordered_stops == Rotate(route[1].stops, first_stop_index)
            route_coords == EditRouteCoords(sim[1].depot_lat, reordered_stops)
        IN  EditReturn(d, PreviewBody(route[1],
                PreviewRoute(eng, route_coords, TrafficFactor(sim[1].traffic_mode))))

\* reorder_route_stops up to its first UPDATE: what it raises, or the values
\* it is about to write to the route row
ReorderRouteStopsRead(d, rows, eng, simulation_id, route_id, first_stop_index) ==
    LET sim == SelectSimulation(d, simulation_id)
        route == SelectRoute(d, route_id, simulation_id)
    IN  IF sim = None
        THEN [raised |-> Some(Raised(404, "Simulasyon bulunamadi")), fields |-> <<>>]
        ELSE IF route = None
        THEN [raised |-> Some(Raised(404, "Rota bulunamadi")), fields |-> <<>>]
        ELSE IF ~InRange(first_stop_index, route[1].stops)
        THEN [raised |-> Some(Raised(400, "Gecersiz durak indeksi")), fields |-> <<>>]
        ELSE
        LET reordered_stops == Rotate(route[1].stops, first_stop_index)
            route_coords == EditRouteCoords(sim[1].depot_lat, reordered_stops)
            new == CommitRoute(eng, route_coords, TrafficFactor(sim[1].traffic_mode))
        IN  [raised |-> None, fields |-> new @@ [stops |-> reordered_stops]]

\* reorder_route_stops
ReorderRouteStops(d, rows, eng, simulation_id, route_id, first_stop_index) ==
    LET read == ReorderRouteStopsRead(d, rows, eng, simulation_id, route_id,
                                      first_stop_index)
    IN  IF read.raised # None
        THEN [db |-> d, response |-> read.raised[1]]
        ELSE EditReturn(CommitEdit(d, simulation_id, route_id, read.fields, FALSE),
                        [route_id |-> route_id] @@ read.fields)
\* _build_employee_stop, the loop stopping at the first stop within
\* AddThreshold
BestStop_First(stops, emp_loc) ==
    LET near == {i \in 1..Len(stops) :
                    Geodesic(emp_loc, stops[i].location) <= AddThreshold}
    IN  IF near = {} THEN 0 ELSE SetMin(near)

\* _build_employee_stop, the loop: the index of the first nearest stop within
\* AddThreshold of the home (0 if there is none)
BestStop(stops, emp_loc) ==
    LET dist(i) == Geodesic(emp_loc, stops[i].location)
        near == {i \in 1..Len(stops) : dist(i) <= AddThreshold}
    IN  IF near = {} THEN 0
        ELSE CHOOSE i \in near :
                /\ \A j \in near : dist(i) <= dist(j)
                /\ \A j \in near : j < i => dist(j) > dist(i)

\* _build_employee_stop, "Add to existing stop"
JoinStop(stop, emp, best_dist) ==
    LET ids == Append(Get(stop, "employee_ids", <<>>), emp.id)
        walks == Append(Get(stop, "employee_walking_distances", <<>>),
                        [employee_id |-> emp.id, walking_distance |-> best_dist])
    IN  [employee_ids |-> ids,
         employee_names |-> Append(Get(stop, "employee_names", <<>>), emp.name),
         employee_count |-> Len(ids),
         employee_walking_distances |-> walks,
         max_walking_distance |-> MaxWalk(walks)] @@ stop

\* _build_employee_stop, "Create a new stop at employee's home location"
NewStop(emp) ==
    [location |-> emp.lat,
     employee_ids |-> <<emp.id>>,
     employee_names |-> <<emp.name>>,
     employee_count |-> 1,
     employee_walking_distances |->
         <<[employee_id |-> emp.id, walking_distance |-> 0]>>,
     max_walking_distance |-> 0,
     road_name |-> "Manuel ekleme"]

\* _build_employee_stop: None if the employee is unknown, else the updated
\* stops
BuildEmployeeStop(rows, employee_id, existing_stops) ==
    LET emp == EmployeeLookup(rows, employee_id)
    IN  IF emp = None THEN None
        ELSE
        LET best_stop_idx == BestStop(existing_stops, emp[1].lat)
        IN  IF best_stop_idx # 0
            THEN Some([existing_stops EXCEPT ![best_stop_idx] =
                        JoinStop(@, emp[1],
                                 Geodesic(emp[1].lat, @.location))])
            ELSE Some(Append(existing_stops, NewStop(emp[1])))

\* position of x in the list s (0 if it is not there)
IndexOf(s, x) ==
    IF \E i \in 1..Len(s) : s[i] = x
    THEN SetMin({i \in 1..Len(s) : s[i] = x})
    ELSE 0

\* the list s without its i-th element
RemoveAt(s, i) == SubSeq(s, 1, i - 1) \o SubSeq(s, i + 1, Len(s))

\* _apply_employee_removal, the body of the loop for the stop holding the
\* employee
StopWithout(stop, employee_id) ==
    LET emp_ids == Get(stop, "employee_ids", <<>>)
        idx_in_stop == IndexOf(emp_ids, employee_id)
        names == Get(stop, "employee_names", <<>>)
        walk_dists == Get(stop, "employee_walking_distances", <<>>)
        new_ids == RemoveAt(emp_ids, idx_in_stop)
        popped == IF idx_in_stop <= Len(names)
                  THEN [employee_names |-> RemoveAt(names, idx_in_stop)] @@ stop
                  ELSE stop
    IN  [employee_walking_distances |->
            SelectSeq(walk_dists, LAMBDA w : w.employee_id # employee_id),
         employee_ids |-> new_ids,
         employee_count |-> Len(new_ids)] @@ popped

\* _apply_employee_removal without its last filter: a stop left without
\* members stays
ApplyEmployeeRemoval_KeepsEmptyStops(existing_stops, employee_id) ==
    LET holds(k) == IndexOf(Get(existing_stops[k], "employee_ids", <<>>),
                            employee_id) # 0
        holders == {k \in 1..Len(existing_stops) : holds(k)}
    IN  [stops |-> IF holders = {} THEN existing_stops
                   ELSE [existing_stops EXCEPT ![SetMin(holders)] =
                            StopWithout(@, employee_id)],
         found |-> holders # {}]

\* _apply_employee_removal: [stops, found]
ApplyEmployeeRemoval(existing_stops, employee_id) ==
    LET holds(k) == IndexOf(Get(existing_stops[k], "employee_ids", <<>>),
                            employee_id) # 0
        holders == {k \in 1..Len(existing_stops) : holds(k)}
        updated_stops ==
            IF holders = {} THEN existing_stops
            ELSE [existing_stops EXCEPT ![SetMin(holders)] =
                     StopWithout(@, employee_id)]
    IN  [stops |-> SelectSeq(updated_stops, LAMBDA s :
                      Get(s, "employee_count", 0) > 0
                      \/ Get(s, "employee_ids", <<>>) # <<>>),
         found |-> holders # {}]

\* the membership check of add-employee without the check
AlreadyInRoute_Never(stops, employee_id) == FALSE

\* "Check if employee is already in this route"
AlreadyInRoute(stops, employee_id) ==
    \E k \in 1..Len(stops) :
        IndexOf(Get(stops[k], "employee_ids", <<>>), employee_id) # 0

\* the capacity check of add-employee without the check
CapacityFull_Never(route) == FALSE

\* "Check capacity": current_passengers >= capacity
CapacityFull(route) ==
    LET capacity == IF route.capacity = 0 THEN DefaultCapacity ELSE route.capacity
    IN  route.passengers >= capacity

\* sum(s.get("employee_count", 0) for s in updated_stops)
NewPassengers(stops) ==
    SumSeq([k \in 1..Len(stops) |-> Get(stops[k], "employee_count", 0)])

\* preview_add_employee
PreviewAddEmployee(d, rows, eng, simulation_id, route_id, employee_id) ==
    LET sim == SelectSimulation(d, simulation_id)
        route == SelectRoute(d, route_id, simulation_id)
    IN  IF sim = None THEN EditRaise(d, 404, "Simulasyon bulunamadi")
        ELSE IF route = None THEN EditRaise(d, 404, "Rota bulunamadi")
        ELSE IF AlreadyInRoute(route[1].stops, employee_id)
        THEN EditRaise(d, 400, "Personel zaten bu rotada")
        ELSE IF CapacityFull(route[1])
        THEN EditRaise(d, 400, "Arac kapasitesi dolu")
        ELSE
        LET updated_stops == BuildEmployeeStop(rows, employee_id, route[1].stops)
        IN  IF updated_stops = None
            THEN EditRaise(d, 404, "Personel bulunamadi")
            ELSE
            LET route_coords == EditRouteCoords(sim[1].depot_lat, updated_stops[1])
            IN  EditReturn(d, [employee_id |-> employee_id] @@
                    PreviewBody(route[1],
                        PreviewRoute(eng, route_coords,
                                     TrafficFactor(sim[1].traffic_mode))))

\* add_employee_to_route up to "Update database": what it raises, or the
\* fields it is going to write
AddEmployeeToRouteRead(d, rows, eng, simulation_id, route_id, employee_id) ==
    LET sim == SelectSimulation(d, simulation_id)
        route == SelectRoute(d, route_id, simulation_id)
        raise(code, why) == [raised |-> Some(Raised(code, why)), fields |-> <<>>]
    IN  IF sim = None THEN raise(404, "Simulasyon bulunamadi")
        ELSE IF route = None THEN raise(404, "Rota bulunamadi")
        ELSE IF AlreadyInRoute(route[1].stops, employee_id)
        THEN raise(400, "Personel zaten bu rotada")
        ELSE IF CapacityFull(route[1])
        THEN raise(400, "Arac kapasitesi dolu")
        ELSE
        LET updated_stops == BuildEmployeeStop(rows, employee_id, route[1].stops)
        IN  IF updated_stops = None
            THEN raise(404, "Personel bulunamadi")
            ELSE
            LET route_coords == EditRouteCoords(sim[1].depot_lat, updated_stops[1])
                new == CommitRoute(eng, route_coords,
                                   TrafficFactor(sim[1].traffic_mode))
            IN  [raised |-> None,
                 fields |-> new @@ [stops |-> updated_stops[1],
                                    passengers |-> NewPassengers(updated_stops[1])]]

\* add_employee_to_route
AddEmployeeToRoute(d, rows, eng, simulation_id, route_id, employee_id) ==
    LET read == AddEmployeeToRouteRead(d, rows, eng, simulation_id, route_id, employee_id)
    IN  IF read.raised # None
        THEN [db |-> d, response |-> read.raised[1]]
        ELSE EditReturn(CommitEdit(d, simulation_id, route_id, read.fields, TRUE),
                        [route_id |-> route_id, employee_id |-> employee_id]
                        @@ read.fields)

\* preview_remove_employee
PreviewRemoveEmployee(d, rows, eng, simulation_id, route_id, employee_id) ==
    LET sim == SelectSimulation(d, simulation_id)
        route == SelectRoute(d, route_id, simulation_id)
    IN  IF sim = None THEN EditRaise(d, 404, "Simulasyon bulunamadi")
        ELSE IF route = None THEN EditRaise(d, 404, "Rota bulunamadi")
        ELSE
        LET removal == ApplyEmployeeRemoval(route[1].stops, employee_id)
            route_coords == EditRouteCoords(sim[1].depot_lat, removal.stops)
            new == IF Len(route_coords) > 2
                   THEN PreviewRoute(eng, route_coords,
                                     TrafficFactor(sim[1].traffic_mode))
                   ELSE [new_distance |-> 0, new_duration |-> 0]
        IN  IF ~removal.found
            THEN EditRaise(d, 404, "Personel bu rotada bulunamadi")
            ELSE EditReturn(d, [employee_id |-> employee_id,
                                stops_remaining |-> Len(removal.stops)]
                               @@ PreviewBody(route[1], new))

\* remove_employee_from_route
RemoveEmployeeFromRoute(d, rows, eng, simulation_id, route_id, employee_id) ==
    LET sim == SelectSimulation(d, simulation_id)
        route == SelectRoute(d, route_id, simulation_id)
    IN  IF sim = None THEN EditRaise(d, 404, "Simulasyon bulunamadi")
        ELSE IF route = None THEN EditRaise(d, 404, "Rota bulunamadi")
        ELSE
        LET removal == ApplyEmployeeRemoval(route[1].stops, employee_id)
            route_coords == EditRouteCoords(sim[1].depot_lat, removal.stops)
            new == IF Len(route_coords) > 2
                   THEN CommitRoute(eng, route_coords,
                                    TrafficFactor(sim[1].traffic_mode))
                   ELSE [distance |-> 0, duration |-> 0, polyline |-> <<>>]
            fields == new @@ [stops |-> removal.stops,
                              passengers |-> NewPassengers(removal.stops)]
        IN  IF ~removal.found
            THEN EditRaise(d, 404, "Personel bu rotada bulunamadi")
            ELSE EditReturn(CommitEdit(d, simulation_id, route_id, fields, TRUE),
                            [route_id |-> route_id, employee_id |-> employee_id]
                            @@ fields)

\* the editor's record of a call: which handler, its arguments, its answer
NoEdit ==
    [op |-> "none", commit |-> FALSE, simulation_id |-> 0, route_id |-> 0,
     request |-> <<>>, response |-> [status |-> 0, detail |-> "", body |-> <<>>]]

\* no call made yet
EdStart == [ops |-> 0, prev |-> NoEdit, last |-> NoEdit]

\* (simulation_id, route_id) of the calls: the rows there are, a route id
\* and a simulation id no row has
EditTargets ==
    LET sims == {db.simulations[k].id : k \in 1..Len(db.simulations)}
        routes == {db.simulation_routes[k].id : k \in 1..Len(db.simulation_routes)}
    IN  (sims \X (routes \cup {9})) \cup {<<9, 1>>}

\* one handler runs from its first line to its return or raise, after
\* create_simulation has ended
Edited(op, commit, target, request, out) ==
    /\ cr.pc = "done"
    /\ ed # EdIdle
    /\ ed.ops < MaxOps
    /\ db' = out.db
    /\ ed' = [ops |-> ed.ops + 1,
              prev |-> ed.last,
              last |-> [op |-> op, commit |-> commit,
                        simulation_id |-> target[1], route_id |-> target[2],
                        request |-> request, response |-> out.response]]
    /\ UNCHANGED <<aside, txs, employees, engine, params, cr, response, session>>

CallPreviewRouteUpdate ==
    \E target \in EditTargets, request \in MoveRequests :
        Edited("move", FALSE, target, request,
               PreviewRouteUpdate(db, employees, engine, target[1], target[2], request))

CallUpdateRouteStops ==
    \E target \in EditTargets, request \in MoveRequests :
        Edited("move", TRUE, target, request,
               UpdateRouteStops(db, employees, engine, target[1], target[2], request))

CallPreviewRouteReorder ==
    \E target \in EditTargets, request \in ReorderRequests :
        Edited("reorder", FALSE, target, request,
               PreviewRouteReorder(db, employees, engine, target[1], target[2], request))

CallReorderRouteStops ==
    \E target \in EditTargets, request \in ReorderRequests :
        Edited("reorder", TRUE, target, request,
               ReorderRouteStops(db, employees, engine, target[1], target[2], request))

CallPreviewAddEmployee ==
    \E target \in EditTargets, request \in AddRequests :
        Edited("add", FALSE, target, request,
               PreviewAddEmployee(db, employees, engine, target[1], target[2], request))

CallAddEmployeeToRoute ==
    \E target \in EditTargets, request \in AddRequests :
        Edited("add", TRUE, target, request,
               AddEmployeeToRoute(db, employees, engine, target[1], target[2], request))

CallPreviewRemoveEmployee ==
    \E target \in EditTargets, request \in RemoveRequests :
        Edited("remove", FALSE, target, request,
               PreviewRemoveEmployee(db, employees, engine, target[1], target[2], request))

CallRemoveEmployeeFromRoute ==
    \E target \in EditTargets, request \in RemoveRequests :
        Edited("remove", TRUE, target, request,
               RemoveEmployeeFromRoute(db, employees, engine, target[1], target[2], request))

---------------------------------------------------------------------------
(* two commit edits as two database transactions.  Every handler has its   *)
(* own session (get_db); the engine is created with the default isolation  *)
(* level, READ COMMITTED: a statement sees the rows committed when it      *)
(* starts and the writes of its own transaction, and an UPDATE of a row    *)
(* another transaction has written waits for that transaction to end.      *)

Transactions == {1, 2}

\* a handler not called yet
NoTx ==
    [pc |-> "start", op |-> "none", simulation_id |-> 0, route_id |-> 0,
     request |-> 0, fields |-> <<>>, route_written |-> FALSE, totals |-> <<>>,
     plan_written |-> FALSE, response |-> [status |-> 0, detail |-> "", body |-> <<>>]]

TxStart == [t \in Transactions |-> NoTx]

\* the tables as a statement of the transaction sees them
Visible(d, tx) ==
    LET routes == IF tx.route_written
                  THEN UpdateRoute(d, tx.route_id, tx.fields) ELSE d
    IN  IF tx.plan_written
        THEN UpdateSimulation(routes, tx.simulation_id, tx.totals) ELSE routes

\* the handler of transaction t runs from its first line to "Update
\* database": the SELECTs and get_route.  It edits a route no other running
\* handler edits.
TxRead(t) ==
    /\ cr.pc = "done"
    /\ txs # TxIdle
    /\ txs[t].pc = "start"
    /\ \E k \in 1..Len(db.simulation_routes), op \in {"move", "reorder"} :
          LET route == db.simulation_routes[k]
          IN  /\ \A u \in Transactions \ {t} : txs[u].route_id # route.id
              /\ \E read \in
                    IF op = "move"
                    THEN {UpdateRouteStopsRead(db, employees, engine,
                              route.simulation_id, route.id, request) :
                              request \in MoveRequests \ {<<>>}}
                    ELSE {ReorderRouteStopsRead(db, employees, engine,
                              route.simulation_id, route.id, request) :
                              request \in ReorderRequests} :
                    txs' = [txs EXCEPT ![t] =
                        IF read.raised # None
                        THEN [@ EXCEPT !.pc = "done", !.op = op,
                                       !.response = read.raised[1]]
                        ELSE [@ EXCEPT !.pc = "update_route", !.op = op,
                                       !.simulation_id = route.simulation_id,
                                       !.route_id = route.id,
                                       !.fields = read.fields]]
    /\ UNCHANGED <<aside, ed, employees, engine, params, cr, response, db, session>>

\* the handler of transaction t, an add_employee_to_route, runs from its
\* first line to "Update database".  The other running handler adds another
\* employee, to this route or to another one.
TxReadAdd(t) ==
    /\ cr.pc = "done"
    /\ txs # TxIdle
    /\ txs[t].pc = "start"
    /\ \E k \in 1..Len(db.simulation_routes), employee_id \in AddRequests :
          LET route == db.simulation_routes[k]
              read == AddEmployeeToRouteRead(db, employees, engine,
                          route.simulation_id, route.id, employee_id)
          IN  /\ \A u \in Transactions \ {t} : txs[u].request # employee_id
              /\ txs' = [txs EXCEPT ![t] =
                    IF read.raised # None
                    THEN [@ EXCEPT !.pc = "done", !.op = "add",
                                   !.request = employee_id,
                                   !.response = read.raised[1]]
                    ELSE [@ EXCEPT !.pc = "update_route", !.op = "add",
                                   !.simulation_id = route.simulation_id,
                                   !.route_id = route.id,
                                   !.request = employee_id,
                                   !.fields = read.fields]]
    /\ UNCHANGED <<aside, ed, employees, engine, params, cr, response, db, session>>

\* UPDATE simulation_routes ... WHERE id = :route_id: waits while another
\* transaction holds a write to the route row
TxUpdateRoute(t) ==
    /\ txs # TxIdle
    /\ txs[t].pc = "update_route"
    /\ \A u \in Transactions \ {t} :
          ~(txs[u].route_written /\ txs[u].route_id = txs[t].route_id)
    /\ txs' = [txs EXCEPT ![t].pc = "select_totals", ![t].route_written = TRUE]
    /\ UNCHANGED <<aside, ed, employees, engine, params, cr, response, db, session>>

\* SELECT SUM(distance), SUM(duration)[, SUM(passengers)] FROM
\* simulation_routes
TxSelectTotals(t) ==
    /\ txs # TxIdle
    /\ txs[t].pc = "select_totals"
    /\ txs' = [txs EXCEPT ![t].pc = "update_plan",
                          ![t].totals = SelectTotals(Visible(db, txs[t]),
                                                     txs[t].simulation_id,
                                                     txs[t].op = "add")]
    /\ UNCHANGED <<aside, ed, employees, engine, params, cr, response, db, session>>

\* UPDATE simulations SET total_distance, total_duration: waits while another
\* transaction holds a write to the plan row
TxUpdatePlan(t) ==
    /\ txs # TxIdle
    /\ txs[t].pc = "update_plan"
    /\ \A u \in Transactions \ {t} :
          ~(txs[u].plan_written /\ txs[u].simulation_id = txs[t].simulation_id)
    /\ txs' = [txs EXCEPT ![t].pc = "commit", ![t].plan_written = TRUE]
    /\ UNCHANGED <<aside, ed, employees, engine, params, cr, response, db, session>>

\* db.commit() and the return
TxCommit(t) ==
    /\ txs # TxIdle
    /\ txs[t].pc = "commit"
    /\ db' = Visible(db, txs[t])
    /\ txs' = [txs EXCEPT ![t] =
                  [@ EXCEPT !.pc = "done", !.route_written = FALSE,
                            !.plan_written = FALSE,
                            !.response =
                                [status |-> 200, detail |-> "",
                                 body |-> [route_id |-> txs[t].route_id]
                                          @@ txs[t].fields]]]
    /\ UNCHANGED <<aside, ed, employees, engine, params, cr, response, session>>

---------------------------------------------------------------------------
(* SpecCluster: cluster_employees over bounded inputs                      *)

\* labels: what KMeans.fit_predict returned, kept for the claims
NoResult == [status |-> "none", stops |-> <<>>, unclustered |-> <<>>, labels |-> <<>>]

NoSolveResult == [solution |-> NoSolution, formatted |-> <<>>, called |-> FALSE]

SolveIdle ==
    /\ svIn = <<>>
    /\ svResult = NoSolveResult

ClusterInputs ==
    UNION {[1..n -> {c * Grid : c \in 0..MaxCell}] : n \in 0..MaxClusterEmp}

\* walking caps: half a grid step, one grid step, two grid steps
ClusterCaps == {Grid \div 2, Grid, 2 * Grid}

InitCluster ==
    /\ SolveIdle
    /\ PipelineIdle
    /\ \E lats \in ClusterInputs :
          clEmployees = [i \in 1..Len(lats) |-> [id |-> i, lat |-> lats[i]]]
    /\ clW \in ClusterCaps
    /\ clMethod \in {"dbscan", "kmeans"}
    /\ clResult = NoResult

CallClusterDbscan ==
    /\ clResult.status = "none"
    /\ clMethod = "dbscan"
    /\ clResult' = [status |-> "ok", labels |-> <<>>] @@
                    ClusterEmployeesDbscan(clEmployees, clW)
    /\ UNCHANGED <<clEmployees, clW, clMethod, solveVars, pipelineVars>>

\* KMeans(n_clusters=k).fit_predict raises ValueError when there are fewer
\* samples than clusters; otherwise it returns some labelling into 0..k-1
CallClusterKMeans ==
    /\ clResult.status = "none"
    /\ clMethod = "kmeans"
    /\ IF clEmployees = <<>>
       THEN clResult' = [status |-> "ok", labels |-> <<>>] @@
                        ClusterEmployeesKMeans(clEmployees, clW, <<>>)
       ELSE IF Len(clEmployees) < KMeansK(Len(clEmployees))
       THEN clResult' = [NoResult EXCEPT !.status = "raised"]
       ELSE \E labels \in [1..Len(clEmployees) -> 0..(KMeansK(Len(clEmployees)) - 1)] :
               clResult' = [status |-> "ok", labels |-> labels] @@
                           ClusterEmployeesKMeans(clEmployees, clW, labels)
    /\ UNCHANGED <<clEmployees, clW, clMethod, solveVars, pipelineVars>>

NextCluster == CallClusterDbscan \/ CallClusterKMeans

SpecCluster == InitCluster /\ [][NextCluster]_vars

\* every centroid computed is a whole metre, so Mean loses nothing
CentroidsExact ==
    clResult.status = "ok" =>
        \A S \in SUBSET (1..Len(clEmployees)) :
            S # {} => MeanIsExact([k \in 1..Cardinality(S) |->
                                     clEmployees[SortedSeq(S)[k]].lat])

---------------------------------------------------------------------------
(* SpecSolve: create_optimized_routes over bounded inputs                  *)

ClusterIdle ==
    /\ clEmployees = <<>>
    /\ clW = 0
    /\ clMethod = "none"
    /\ clResult = NoResult

\* passengers waiting at a stop
SolveDemands == {1, 10, 20}

\* metres between neighbouring stops of the line depot, stop 1, stop 2, ...
SolveSpacing == {510, 3010}

\* max_route_duration handed to the solver (15 and 65 minutes)
SolveTmax == {900, 3900}

\* stops of SpecSolve: stop k at k * spacing, with the given head count
SolveStops(counts, spacing) ==
    [k \in 1..Len(counts) |->
        [cluster_id |-> k - 1,
         location |-> k * spacing,
         employee_count |-> counts[k],
         employee_ids |-> [j \in 1..counts[k] |-> 100 * k + j]]]

\* a matrix over depot (at 0) and stops: per units for every metre
LineMatrix(stops, per) ==
    LET at(i) == IF i = 0 THEN 0 ELSE stops[i].location
    IN  [i \in 0..Len(stops) |-> [j \in 0..Len(stops) |->
            Dist(at(i), at(j)) * per]]

\* seconds per metre of the duration matrices of SpecSolve, in 1/DurScale s;
\* 0 stands for no duration matrix
SolvePaces == {0, 50, 625}

InitSolve ==
    /\ ClusterIdle
    /\ PipelineIdle
    /\ \E n \in 1..MaxSolveStops :
       \E counts \in [1..n -> SolveDemands], spacing \in SolveSpacing,
          pace \in SolvePaces, tmax \in SolveTmax,
          num16 \in 0..MaxSolveFleet, num27 \in 0..MaxSolveFleet,
          priority \in {"small", "large", "auto"}, buffer \in {0, 5} :
          LET stops == SolveStops(counts, spacing)
          IN  svIn = [stops |-> stops,
                      distance_matrix |-> LineMatrix(stops, 1),
                      duration_matrix |->
                          IF pace = 0 THEN <<>> ELSE LineMatrix(stops, pace),
                      num_16_seaters |-> num16, num_27_seaters |-> num27,
                      vehicle_priority |-> priority,
                      max_route_duration |-> tmax, buffer_seats |-> buffer]
    /\ svResult = NoSolveResult

CallCreateOptimizedRoutes ==
    /\ ~svResult.called
    /\ \E r \in CreateOptimizedRoutes(svIn.stops, 0, svIn.distance_matrix,
                   svIn.duration_matrix, svIn.num_16_seaters, svIn.num_27_seaters,
                   svIn.vehicle_priority, svIn.max_route_duration, svIn.buffer_seats) :
          svResult' = [solution |-> r.solution, formatted |-> r.formatted,
                       called |-> TRUE]
    /\ UNCHANGED <<svIn, clusterVars, pipelineVars>>

NextSolve == CallCreateOptimizedRoutes

SpecSolve == InitSolve /\ [][NextSolve]_vars

---------------------------------------------------------------------------
(* SpecScenario2: create_optimized_routes for four stops of ten passengers *)
(* near the depot, three 16-seaters and one 27-seater, priority auto, no   *)
(* buffer seats                                                            *)

InitScenario2 ==
    /\ ClusterIdle
    /\ PipelineIdle
    /\ \E pace \in {0, 50}, tmax \in SolveTmax :
          LET stops == SolveStops(<<10, 10, 10, 10>>, 510)
          IN  svIn = [stops |-> stops,
                      distance_matrix |-> LineMatrix(stops, 1),
                      duration_matrix |->
                          IF pace = 0 THEN <<>> ELSE LineMatrix(stops, pace),
                      num_16_seaters |-> 3, num_27_seaters |-> 1,
                      vehicle_priority |-> "auto",
                      max_route_duration |-> tmax, buffer_seats |-> 0]
    /\ svResult = NoSolveResult

SpecScenario2 == InitScenario2 /\ [][NextSolve]_vars

---------------------------------------------------------------------------
(* SpecCreate: one create_simulation request, over many worlds             *)

\* most rows of table employees in SpecCreate
MaxCreateEmp == 2

\* homes of SpecCreate (the depot is at 0)
CreateHomes == {-7010, 1010, 1210, 7010, 9010}

EngineDown == [mode |-> "down", roads |-> <<>>, pace |-> 0]

\* an engine with a main road 10 m from every point
EngineOffRoad ==
    [mode |-> "up", roads |-> <<[kind |-> "main", shift |-> 10]>>, pace |-> 50]

\* an engine with every point on a small street, a main road 300 m on
EngineMainAhead ==
    [mode |-> "up", pace |-> 50,
     roads |-> <<[kind |-> "small", shift |-> 0], [kind |-> "main", shift |-> 300]>>]

\* the engine with a main road 10 m from every point, its table answers
\* without durations
EngineNoDurations ==
    [mode |-> "no_durations", roads |-> <<[kind |-> "main", shift |-> 10]>>, pace |-> 50]

\* an engine with every point on a main road
EngineOnRoad ==
    [mode |-> "up", roads |-> <<[kind |-> "main", shift |-> 0]>>, pace |-> 50]

\* an engine with every point on a small street and a named road that is
\* neither a main road nor a small street 700 m on
EngineSideRoad ==
    [mode |-> "up", pace |-> 50,
     roads |-> <<[kind |-> "small", shift |-> 0], [kind |-> "road", shift |-> 700]>>]

\* an engine with every point on a small street and a road without a name
\* 100 m on
EngineUnnamed ==
    [mode |-> "up", pace |-> 50,
     roads |-> <<[kind |-> "small", shift |-> 0], [kind |-> "", shift |-> 100]>>]

\* an engine that knows small streets only: one 600 m off, one 800 m off
EngineSmallOnly ==
    [mode |-> "up", pace |-> 50,
     roads |-> <<[kind |-> "small", shift |-> 600], [kind |-> "small", shift |-> 800]>>]

\* table employees: ids 1.., the homes and shifts given
EmployeeTable(homes, shifts) ==
    [i \in 1..Len(homes) |->
        [id |-> i, name |-> 1000 + i, lat |-> homes[i], shift_id |-> shifts[i]]]

\* the tables of up to MaxCreateEmp employees of shift 1 living in homeSet
CreateTables(homeSet) ==
    {EmployeeTable(homes, [i \in DOMAIN homes |-> 1]) :
        homes \in UNION {[1..n -> homeSet] : n \in 0..MaxCreateEmp}}

\* a request to create_simulation over a set of tables, engines and options,
\* nothing persisted yet
CreateWorld(tables, engines, fleets, priorities, minuteSet, traffics, rtypes, shifts, buffers) ==
    /\ ClusterIdle
    /\ SolveIdle
    /\ employees \in tables
    /\ engine \in engines
    /\ \E fleet \in fleets, priority \in priorities, minutes \in minuteSet,
          traffic \in traffics, rtype \in rtypes, shift \in shifts,
          buffer \in buffers :
          params = [max_walking_distance |-> 200,
                    use_16_seaters |-> fleet[1],
                    use_27_seaters |-> fleet[2],
                    vehicle_priority |-> Some(priority),
                    max_travel_time |-> minutes,
                    traffic_mode |-> traffic,
                    buffer_seats |-> buffer,
                    depot_location |-> 0,
                    shift_id |-> shift,
                    route_type |-> rtype]
    /\ cr = CrStart
    /\ response = NoResponse
    /\ db = EmptyTables
    /\ session = EmptyTables
    /\ sn = SnIdle
    /\ rq = RqIdle

InitCreate ==
    /\ CreateWorld(CreateTables(CreateHomes),
                   {EngineDown, EngineOffRoad, EngineMainAhead, EngineNoDurations},
                   (0..1) \X (0..1), {"auto", "small", "large"}, {15, 65},
                   {"none", "morning"}, {"ring", "to_home", "to_depot"},
                   {None, Some(2), Some(3)}, {0})
    /\ ed = EdIdle
    /\ txs = TxIdle

\* employees of the worlds in which termination is checked
FairEmp == 1

\* fewer worlds, for the check of termination
InitCreateFair ==
    /\ CreateWorld(CreateTables({1010, 7010, 9010}), {EngineDown, EngineOffRoad},
                   (0..1) \X (0..1), {"auto", "small", "large"}, {15, 65},
                   {"none", "morning"}, {"ring", "to_home"}, {None, Some(3)}, {0})
    /\ Len(employees) <= FairEmp
    /\ ed = EdIdle
    /\ txs = TxIdle

NextCreate ==
    \/ LoadEmployees
    \/ ClusterStops
    \/ SnapStops
    \/ BuildMatrix
    \/ SolveAttempt
    \/ RaiseNoSolution
    \/ BuildGeometry
    \/ InsertPlan
    \/ InsertRoute
    \/ CommitPlan
    \/ DbStatementFails

SpecCreate == InitCreate /\ [][NextCreate]_vars

\* the handler is a running coroutine: it goes on until it returns or raises
SpecCreateFair == InitCreateFair /\ [][NextCreate]_vars /\ WF_vars(NextCreate)

---------------------------------------------------------------------------
(* SpecEdit: create_simulation, then calls of the plan editor one after    *)
(* another                                                                 *)

\* eleven employees at one address and one far away in shift 1; two of
\* shift 2, one 200 m from the address and one 4 km from it
EditTable ==
    EmployeeTable([i \in 1..11 |-> 1010] \o <<-3010, 1210, 5010>>,
                  [i \in 1..12 |-> 1] \o <<2, 2>>)

InitEdit ==
    /\ \/ CreateWorld({EditTable}, {EngineDown, EngineOffRoad}, {<<1, 1>>},
                      {"auto"}, {65}, {"none", "morning"},
                      {"ring", "to_home", "to_depot"}, {Some(1)}, {5})
       \/ CreateWorld(CreateTables({9010}), {EngineDown}, {<<1, 0>>},
                      {"auto"}, {15}, {"morning"}, {"ring"}, {None}, {0})
    /\ ed = EdStart
    /\ txs = TxIdle

NextEdit ==
    \/ LoadEmployees
    \/ ClusterStops
    \/ SnapStops
    \/ BuildMatrix
    \/ SolveAttempt
    \/ RaiseNoSolution
    \/ BuildGeometry
    \/ InsertPlan
    \/ InsertRoute
    \/ CommitPlan
    \/ DbStatementFails
    \/ CallPreviewRouteUpdate
    \/ CallUpdateRouteStops
    \/ CallPreviewRouteReorder
    \/ CallReorderRouteStops
    \/ CallPreviewAddEmployee
    \/ CallAddEmployeeToRoute
    \/ CallPreviewRemoveEmployee
    \/ CallRemoveEmployeeFromRoute

SpecEdit == InitEdit /\ [][NextEdit]_vars

---------------------------------------------------------------------------
(* SpecPlans: create_simulation called once and then again with the same   *)
(* request, and calls of the plan editor one after another, on the routes  *)
(* of either plan                                                          *)

\* plans the tables hold at most
MaxPlans == 2

\* POST /simulations once more, after a plan was committed
CallCreateSimulationAgain ==
    /\ cr.pc = "done"
    /\ ed # EdIdle
    /\ Len(db.simulations) > 0
    /\ Len(db.simulations) < MaxPlans
    /\ cr' = CrStart
    /\ response' = NoResponse
    /\ UNCHANGED <<aside, ed, txs, employees, engine, params, db, session>>

\* up to two employees at one address 1 km from the depot; and the world in
\* which no plan is found
InitPlans ==
    /\ \/ CreateWorld(CreateTables({1010}), {EngineOffRoad}, {<<1, 0>>},
                      {"auto"}, {65}, {"morning"}, {"ring"}, {None}, {0})
       \/ CreateWorld(CreateTables({9010}), {EngineDown}, {<<1, 0>>},
                      {"auto"}, {15}, {"morning"}, {"ring"}, {None}, {0})
    /\ ed = EdStart
    /\ txs = TxIdle

NextPlans == NextEdit \/ CallCreateSimulationAgain

SpecPlans == InitPlans /\ [][NextPlans]_vars

---------------------------------------------------------------------------
(* SpecConcurrent: create_simulation, then two commit edits of different   *)
(* routes running as two transactions                                      *)

InitConcurrent ==
    /\ \/ CreateWorld({EditTable}, {EngineDown, EngineOffRoad}, {<<1, 1>>},
                      {"auto"}, {65}, {"none", "morning"}, {"ring"}, {Some(1)}, {5})
       \/ CreateWorld(CreateTables({9010}), {EngineDown}, {<<1, 0>>},
                      {"auto"}, {15}, {"morning"}, {"ring"}, {None}, {0})
    /\ ed = EdIdle
    /\ txs = TxStart

NextConcurrent ==
    \/ LoadEmployees
    \/ ClusterStops
    \/ SnapStops
    \/ BuildMatrix
    \/ SolveAttempt
    \/ RaiseNoSolution
    \/ BuildGeometry
    \/ InsertPlan
    \/ InsertRoute
    \/ CommitPlan
    \/ DbStatementFails
    \/ \E t \in Transactions : TxRead(t)
    \/ \E t \in Transactions : TxUpdateRoute(t)
    \/ \E t \in Transactions : TxSelectTotals(t)
    \/ \E t \in Transactions : TxUpdatePlan(t)
    \/ \E t \in Transactions : TxCommit(t)

SpecConcurrent == InitConcurrent /\ [][NextConcurrent]_vars

---------------------------------------------------------------------------
(* SpecAdds: create_simulation, then two add_employee_to_route calls for   *)
(* two employees run as two transactions whose statements interleave       *)

InitAdds ==
    /\ \/ CreateWorld({EditTable}, {EngineDown}, {<<1, 1>>},
                      {"auto"}, {65}, {"none"}, {"ring"}, {Some(1)}, {5})
       \/ CreateWorld(CreateTables({9010}), {EngineDown}, {<<1, 0>>},
                      {"auto"}, {15}, {"morning"}, {"ring"}, {None}, {0})
    /\ ed = EdIdle
    /\ txs = TxStart

NextAdds ==
    \/ LoadEmployees
    \/ ClusterStops
    \/ SnapStops
    \/ BuildMatrix
    \/ SolveAttempt
    \/ RaiseNoSolution
    \/ BuildGeometry
    \/ InsertPlan
    \/ InsertRoute
    \/ CommitPlan
    \/ DbStatementFails
    \/ \E t \in Transactions : TxReadAdd(t)
    \/ \E t \in Transactions : TxUpdateRoute(t)
    \/ \E t \in Transactions : TxSelectTotals(t)
    \/ \E t \in Transactions : TxUpdatePlan(t)
    \/ \E t \in Transactions : TxCommit(t)

SpecAdds == InitAdds /\ [][NextAdds]_vars

---------------------------------------------------------------------------
(* SpecSnap: one call of snap_multiple_to_road.  Its snap_to_road tasks    *)
(* run on the event loop together: each awaits its own /nearest request,   *)
(* the answers come in any order, and a request that fails makes its task  *)
(* return the fallback.  gather returns when the last task has ended.      *)

\* points of the batches of SpecSnap
SnapPoints == {1010, 2010, 3010}

\* what one snap_to_road task can return: the snap, or the fallback when its
\* request fails
SnapTaskOutcomes(eng, loc) == {SnapToRoad(eng, loc), SnapToRoad(EngineDown, loc)}

\* results in the order the tasks ended
Gather_AsCompleted(tasks, order) == [k \in 1..Len(order) |-> tasks[order[k]][1]]

\* asyncio.gather(*tasks): the results in the order of the tasks
Gather(tasks, order) == [i \in 1..Len(tasks) |-> tasks[i][1]]

InitSnap ==
    /\ ClusterIdle
    /\ SolveIdle
    /\ employees = <<>>
    /\ engine \in {EngineDown, EngineOffRoad, EngineMainAhead, EngineOnRoad,
                   EngineSideRoad, EngineUnnamed, EngineSmallOnly}
    /\ params = <<>>
    /\ cr = CrDone(0)
    /\ response = NoResponse
    /\ db = EmptyTables
    /\ session = EmptyTables
    /\ ed = EdIdle
    /\ txs = TxIdle
    /\ rq = RqIdle
    /\ \E coordinates \in UNION {[1..n -> SnapPoints] : n \in 0..MaxSnap} :
          sn = [coordinates |-> coordinates,
                tasks |-> [i \in 1..Len(coordinates) |-> None],
                order |-> <<>>,
                results |-> None]

\* the task of the i-th coordinate returns
SnapTaskEnds(i) ==
    /\ sn # SnIdle
    /\ i \in 1..Len(sn.coordinates)
    /\ sn.tasks[i] = None
    /\ \E result \in SnapTaskOutcomes(engine, sn.coordinates[i]) :
          sn' = [sn EXCEPT !.tasks[i] = Some(result), !.order = Append(@, i)]
    /\ UNCHANGED <<clusterVars, solveVars, employees, engine, params, cr,
                   response, db, session, ed, txs, rq>>

\* results = await asyncio.gather(*tasks); return results
SnapGatherReturns ==
    /\ sn # SnIdle
    /\ sn.results = None
    /\ \A i \in 1..Len(sn.coordinates) : sn.tasks[i] # None
    /\ sn' = [sn EXCEPT !.results = Some(Gather(sn.tasks, sn.order))]
    /\ UNCHANGED <<clusterVars, solveVars, employees, engine, params, cr,
                   response, db, session, ed, txs, rq>>

NextSnap ==
    \/ \E i \in 1..MaxSnap : SnapTaskEnds(i)
    \/ SnapGatherReturns

SpecSnap == InitSnap /\ [][NextSnap]_vars

---------------------------------------------------------------------------
(* SpecEngine: one call of get_distance_matrix or of get_route, over every *)
(* kind of answer of the engine                                            *)

EngineStatus == [mode |-> "status", roads |-> <<>>, pace |-> 0]

EngineNotOk == [mode |-> "not_ok", roads |-> <<>>, pace |-> 0]

EngineNoBody == [mode |-> "no_body", roads |-> <<>>, pace |-> 0]

EngineNoRoutes == [mode |-> "no_routes", roads |-> <<>>, pace |-> 0]

InitEngine ==
    /\ ClusterIdle
    /\ SolveIdle
    /\ employees = <<>>
    /\ engine \in {EngineDown, EngineOffRoad, EngineOnRoad, EngineStatus,
                   EngineNotOk, EngineNoBody, EngineNoRoutes}
    /\ params = <<>>
    /\ cr = CrDone(0)
    /\ response = NoResponse
    /\ db = EmptyTables
    /\ session = EmptyTables
    /\ ed = EdIdle
    /\ txs = TxIdle
    /\ sn = SnIdle
    /\ \E coordinates \in UNION {[1..n -> SnapPoints] : n \in 0..MaxSnap} :
          rq = [coordinates |-> coordinates, op |-> "none", result |-> None]

EngineCalled(op, result) ==
    /\ rq # RqIdle
    /\ rq.op = "none"
    /\ rq' = [rq EXCEPT !.op = op, !.result = Some(result)]
    /\ UNCHANGED <<clusterVars, solveVars, employees, engine, params, cr,
                   response, db, session, ed, txs, sn>>

CallGetDistanceMatrix ==
    EngineCalled("matrix", GetDistanceMatrix(engine, rq.coordinates))

CallGetRoute ==
    EngineCalled("route", GetRoute(engine, rq.coordinates))

NextEngine ==
    \/ CallGetDistanceMatrix
    \/ CallGetRoute

SpecEngine == InitEngine /\ [][NextEngine]_vars

---------------------------------------------------------------------------
(* Claims                                                                  *)

ClusterInputIds == [i \in 1..Len(clEmployees) |-> clEmployees[i].id]

ClusterMemberIds ==
    FlatSeq([k \in 1..Len(clResult.stops) |-> clResult.stops[k].employee_ids])

\* C1: whenever cluster_employees returns, every input employee id is a member
\* of exactly one output stop (the member ids, listed over all stops, are the
\* input ids with none repeated and none missing) and the returned residual
\* list is empty.
C1_MembershipPartition ==
    clResult.status = "ok" =>
        /\ Len(ClusterMemberIds) = Len(ClusterInputIds)
        /\ SeqRange(ClusterMemberIds) = SeqRange(ClusterInputIds)
        /\ \A i, j \in 1..Len(ClusterMemberIds) :
              i # j => ClusterMemberIds[i] # ClusterMemberIds[j]
        /\ clResult.unclustered = <<>>

\* C1 witness: three employees came back as one shared stop and one
\* individual stop made from the residual
C1_Witness ==
    /\ clResult.status = "ok"
    /\ Len(clEmployees) = 3
    /\ \E k \in 1..Len(clResult.stops) : clResult.stops[k].employee_count = 2
    /\ \E k \in 1..Len(clResult.stops) : clResult.stops[k].is_individual_stop

\* the solver result of SpecSolve and its inputs
SolveNodes == 1..Len(svIn.stops)

SolveSolved == svResult.called /\ svResult.solution.status \in {"OPTIMAL", "FEASIBLE"}

\* number of times node n occurs over all vehicles' routes
Visits(routes, n) ==
    SumSeq([v \in 1..Len(routes) |->
              Cardinality({k \in 1..Len(routes[v]) : routes[v][k] = n})])

SolveTotalDemand == SumSeq([k \in 1..Len(svIn.stops) |-> svIn.stops[k].employee_count])

SolveFleetCapacity ==
    LET f == Fleet(svIn.num_16_seaters, svIn.num_27_seaters,
                   svIn.vehicle_priority, svIn.buffer_seats).vehicles
    IN  SumSeq([v \in 1..Len(f) |-> f[v].capacity])

\* C3: in every solver result whose status is not no_solution every non-depot
\* node is on exactly one vehicle's route, once, and the per-vehicle loads add
\* up to the demands of all stops; when the demand exceeds what the fleet
\* seats the result is no_solution (or the call raised), never a result with
\* a stop left out.
C3_SolverCoversEveryNode ==
    /\ SolveSolved =>
          /\ \A n \in SolveNodes : Visits(svResult.solution.routes, n) = 1
          /\ SumSeq(svResult.solution.loads) = SolveTotalDemand
          /\ svResult.formatted.total_passengers = SumSeq(svResult.solution.loads)
    /\ (svResult.called /\ SolveTotalDemand > SolveFleetCapacity) => ~SolveSolved

\* C3 witness: two stops solved with two vehicles, one stop each
C3_Witness ==
    /\ SolveSolved
    /\ Len(svIn.stops) = 2
    /\ svResult.solution.vehicles_used = 2
    /\ \A v \in 1..2 : svResult.solution.loads[v] > 0

\* C3 witness of the other branch: more demand than seats ended in no_solution
C3_OverDemandWitness ==
    /\ svResult.called
    /\ SolveTotalDemand > SolveFleetCapacity
    /\ SolveFleetCapacity > 0
    /\ svResult.solution.status = "NO_SOLUTION"

\* the request of create_simulation, as the claims speak of it
RequestedEmployees == SelectEmployees(employees, params.shift_id)

RequestedCapacity ==
    LET f == Fleet(params.use_16_seaters, params.use_27_seaters,
                   PriorityOr(params.vehicle_priority, "auto"),
                   params.buffer_seats).vehicles
    IN  SumSeq([v \in 1..Len(f) |-> f[v].capacity])

InfeasibleError == response.status = 400 /\ response.detail = "time constraint infeasible"

\* C4: whenever the requested fleet seats every employee of the request,
\* create_simulation does not end with the 'time constraint infeasible' error,
\* whatever the travel durations and the maximum travel time are.
C4_PlanWheneverCapacitySuffices ==
    (cr.pc = "done" /\ RequestedEmployees # <<>>
        /\ RequestedCapacity >= Len(RequestedEmployees))
    => ~InfeasibleError

\* C5: create_simulation calls the solver at most 5 times; once an attempt
\* has returned a status other than no_solution with a vehicle used no further
\* call is made; a request that ends with the 'time constraint infeasible'
\* error has made all 5 calls and has left no plan row and no route row,
\* committed or pending; and the handler always comes to its end.
C5_BoundedRetries ==
    /\ [](cr.calls <= 5)
    /\ [][(cr.optimization_result # <<>> /\ Succeeded(cr.optimization_result))
            => cr'.calls = cr.calls]_vars
    /\ [](InfeasibleError =>
            cr.calls = 5 /\ db = EmptyTables /\ session = EmptyTables)
    /\ [](cr.pc = "check" /\ ~Succeeded(cr.optimization_result)
            => cr.calls = 5)
    /\ <>(cr.pc = "done")

\* C5 witness: a request that ended with the error after five calls
C5_Witness == InfeasibleError /\ cr.calls = 5 /\ RequestedEmployees # <<>>

PlanRoutes(d, plan) ==
    SelectSeq(d.simulation_routes, LAMBDA r : r.simulation_id = plan.id)

\* C6: in every state the committed tables hold, for every plan row, all of
\* its route rows (as many as total_vehicles, at least one), and no route row
\* without its plan row; after a request that ended with an error they hold
\* neither.
C6_AtomicPersist ==
    /\ \A i \in 1..Len(db.simulations) :
          /\ Len(PlanRoutes(db, db.simulations[i])) = db.simulations[i].total_vehicles
          /\ db.simulations[i].total_vehicles >= 1
    /\ \A k \in 1..Len(db.simulation_routes) :
          \E i \in 1..Len(db.simulations) :
              db.simulations[i].id = db.simulation_routes[k].simulation_id
    /\ (cr.pc = "done" /\ response.status # 200) =>
          db = EmptyTables /\ session = EmptyTables

\* C6 witness: a plan of two routes was committed
C6_Witness ==
    /\ response.status = 200
    /\ Len(db.simulations) = 1
    /\ Len(db.simulation_routes) = 2

\* a statement failed after the plan row and a route row were inserted
C6_FailureWitness ==
    /\ response.status = 500
    /\ cr.calls >= 1
    /\ db = EmptyTables

\* the plan row of a route row
PlanOf(d, route) ==
    (CHOOSE s \in {SelectSimulation(d, route.simulation_id)} : TRUE)[1]

\* number of members over the stops of a route row
Members(route) ==
    SumSeq([k \in 1..Len(route.stops) |->
               Len(Get(route.stops[k], "employee_ids", <<>>))])

\* seats of a vehicle of this type
Seats(vehicle_type) == IF vehicle_type = "16-seater" THEN SmallSeats ELSE LargeSeats

\* the call was a commit that went through
Committed(call) == call.commit /\ call.response.status = 200

\* the call was a preview that went through
Previewed(call) == call.op # "none" /\ ~call.commit /\ call.response.status = 200

\* C2: for every committed route row, after create_simulation and after every
\* committed edit, passengers is the number of members over the row's stops
\* and is at most the row's capacity, which is the seats of the vehicle less
\* the plan's buffer seats.
C2_PassengersWithinCapacity ==
    \A k \in 1..Len(db.simulation_routes) :
        LET route == db.simulation_routes[k]
        IN  /\ route.passengers = Members(route)
            /\ route.passengers <= route.capacity
            /\ route.capacity =
                   Seats(route.vehicle_type) - PlanOf(db, route).buffer_seats

\* C2 witness: an employee was added to a route, and the next add, to a route
\* whose passengers had reached its capacity, was refused
C2_Witness ==
    /\ ed # EdIdle
    /\ ed.prev.op = "add" /\ Committed(ed.prev)
    /\ ed.last.op = "add" /\ ed.last.commit
    /\ ed.last.response.detail = "Arac kapasitesi dolu"
    /\ \E k \in 1..Len(db.simulation_routes) :
          /\ db.simulation_routes[k].id = ed.last.route_id
          /\ db.simulation_routes[k].passengers = db.simulation_routes[k].capacity

\* C7: in every state after create_simulation and after any number of
\* committed edits made one after another, total_distance, total_duration and
\* total_passengers of every plan row are the sums of distance, duration and
\* passengers over the plan's route rows.
C7_PlanTotalsAreSums ==
    \A i \in 1..Len(db.simulations) :
        LET plan == db.simulations[i]
        IN  /\ plan.total_distance = SumField(db, plan.id, "distance")
            /\ plan.total_duration = SumField(db, plan.id, "duration")
            /\ plan.total_passengers = SumField(db, plan.id, "passengers")

\* C7 witness: a plan of two routes after a committed move of a stop and a
\* committed add that changed the route's distance
C7_Witness ==
    /\ ed # EdIdle
    /\ ed.prev.op = "move" /\ Committed(ed.prev) /\ ed.prev.request # <<>>
    /\ ed.last.op = "add" /\ Committed(ed.last)
    /\ Len(db.simulation_routes) = 2
    /\ db.simulations[1].total_distance > 0

\* both handlers have committed
BothCommitted ==
    /\ txs # TxIdle
    /\ \A t \in Transactions : txs[t].pc = "done" /\ txs[t].response.status = 200

\* C8: once two commit edits of different routes of one plan, run as two
\* transactions, have both committed, the plan's total_distance and
\* total_duration are the sums of distance and duration over its route rows,
\* whatever the order of their statements was.
C8_ConcurrentTotalsAreSums ==
    BothCommitted =>
        \A i \in 1..Len(db.simulations) :
            LET plan == db.simulations[i]
            IN  /\ plan.total_distance = SumField(db, plan.id, "distance")
                /\ plan.total_duration = SumField(db, plan.id, "duration")

\* two calls of the same handler kind with the same arguments
SameCall(a, b) ==
    /\ a.op = b.op
    /\ a.simulation_id = b.simulation_id
    /\ a.route_id = b.route_id
    /\ a.request = b.request

\* C9: a preview leaves the committed tables as they were; two consecutive
\* previews of the same request give the same answer; and after a preview
\* followed by the commit of the same request the route row's distance and
\* duration are the preview's new_distance and new_duration.
C9_PreviewThenCommit ==
    /\ [][(ed # EdIdle /\ ed' # ed /\ ~ed'.last.commit) => db' = db]_vars
    /\ [](ed # EdIdle /\ ed.prev.op # "none" /\ ~ed.prev.commit /\ ~ed.last.commit
            /\ SameCall(ed.prev, ed.last)
          => ed.last.response = ed.prev.response)
    /\ [](ed # EdIdle /\ Previewed(ed.prev) /\ Committed(ed.last)
            /\ SameCall(ed.prev, ed.last)
          => LET route == SelectRoute(db, ed.last.route_id, ed.last.simulation_id)[1]
             IN  /\ route.distance = ed.prev.response.body.new_distance
                 /\ route.duration = ed.prev.response.body.new_duration)

\* C9 witness: a preview of a move under morning traffic, then its commit,
\* which changed the route's distance
C9_Witness ==
    /\ ed # EdIdle
    /\ Previewed(ed.prev) /\ Committed(ed.last) /\ SameCall(ed.prev, ed.last)
    /\ ed.last.op = "move"
    /\ ed.prev.response.body.distance_diff # 0
    /\ db.simulations[1].traffic_mode = "morning"

\* two previews of one add request, one after the other
C9_PreviewPairWitness ==
    /\ ed # EdIdle
    /\ Previewed(ed.prev) /\ Previewed(ed.last) /\ SameCall(ed.prev, ed.last)
    /\ ed.last.op = "add"

\* C10: for every committed route row, after create_simulation and after
\* every committed edit, the polyline starts at the depot exactly if the
\* plan's route type is ring or to_home, and ends at the depot exactly if it
\* is ring or to_depot.
C10_PolylineEndpoints ==
    \A k \in 1..Len(db.simulation_routes) :
        LET route == db.simulation_routes[k]
            plan == PlanOf(db, route)
            polyline == route.polyline
        IN  /\ (polyline # <<>> /\ polyline[1] = plan.depot_lat)
                 <=> plan.route_type \in {"ring", "to_home"}
            /\ (polyline # <<>> /\ polyline[Len(polyline)] = plan.depot_lat)
                 <=> plan.route_type \in {"ring", "to_depot"}

\* the same before any call of the plan editor
C10_AfterCreation == (ed # EdIdle /\ ed.ops = 0) => C10_PolylineEndpoints

\* the stops a call that went through has routed: those of the row after a
\* commit, those the preview computes from the row otherwise
RoutedStops(call, route) ==
    IF call.commit THEN route.stops
    ELSE IF call.op = "move" THEN PreviewStopUpdates(route.stops, call.request)
    ELSE IF call.op = "reorder" THEN Rotate(route.stops, call.request)
    ELSE IF call.op = "add"
    THEN BuildEmployeeStop(employees, call.request, route.stops)[1]
    ELSE ApplyEmployeeRemoval(route.stops, call.request).stops

\* C11: every edit that goes through, preview or commit, routes the coordinate
\* sequence create_simulation builds for the plan's route type (ring: depot,
\* stops, depot; to_home: depot, stops; to_depot: stops, depot): the distance
\* it returns or stores is the engine's distance for that sequence.
C11_EditCoordsByRouteType ==
    (ed # EdIdle /\ ed.last.response.status = 200) =>
        LET call == ed.last
            sim == SelectSimulation(db, call.simulation_id)[1]
            route == SelectRoute(db, call.route_id, call.simulation_id)[1]
            stops == RoutedStops(call, route)
            route_coords ==
                CreateRouteCoords(sim.route_type, sim.depot_lat,
                                  [k \in 1..Len(stops) |-> stops[k].location])
            got == IF call.commit THEN route.distance
                   ELSE call.response.body.new_distance
        IN  stops # <<>> => got = GetRoute(engine, route_coords).distance

\* the same for the plans whose route type is ring
C11_RingOnly ==
    (ed # EdIdle /\ ed.last.response.status = 200
        /\ SelectSimulation(db, ed.last.simulation_id)[1].route_type # "ring")
    \/ C11_EditCoordsByRouteType

\* C12: in every output of the density method, every member of a stop that is
\* not an individual stop lives at most the walking cap W from the stop's
\* centroid, chains of employees each within W of the next included.
C12_WalkingBound ==
    (clResult.status = "ok" /\ clMethod = "dbscan") =>
        \A k \in 1..Len(clResult.stops) :
            LET stop == clResult.stops[k]
            IN  ~stop.is_individual_stop =>
                    \A i \in 1..Len(clEmployees) :
                        clEmployees[i].id \in SeqRange(stop.employee_ids) =>
                            Dist(clEmployees[i].lat, stop.location) <= clW

\* the same for the inputs of at most three employees
C12_UpToThree == Len(clEmployees) <= 3 => C12_WalkingBound

\* C13: when a batch snap returns, its list is as long as the list of
\* coordinates and its i-th entry is what the task of the i-th coordinate
\* returned, a snap of that coordinate or its fallback, in whatever order the
\* tasks ended; when no request failed it is the list SnapMultipleToRoad gives.
C13_SnapOrdering ==
    (sn # SnIdle /\ sn.results # None) =>
        LET results == sn.results[1]
        IN  /\ Len(results) = Len(sn.coordinates)
            /\ \A i \in 1..Len(results) :
                  /\ results[i] = sn.tasks[i][1]
                  /\ results[i].original = sn.coordinates[i]
                  /\ results[i] \in SnapTaskOutcomes(engine, sn.coordinates[i])
            /\ (\A i \in 1..Len(results) : results[i].valid)
                  => results = SnapMultipleToRoad(engine, sn.coordinates)

\* C13 witness: three different points, the tasks ended in another order than
\* they were started, one of them on the fallback, and the batch returned
C13_Witness ==
    /\ sn # SnIdle
    /\ sn.results # None
    /\ Len(sn.coordinates) = 3
    /\ sn.order = <<3, 1, 2>>
    /\ sn.coordinates[1] # sn.coordinates[2]
    /\ sn.coordinates[2] # sn.coordinates[3]
    /\ sn.results[1][1].valid
    /\ ~sn.results[1][2].valid

\* the engine was asked (two coordinates or more) and the call has returned
EngineAsked == rq # RqIdle /\ rq.result # None /\ Len(rq.coordinates) >= 2

\* C14: for get_distance_matrix and get_route, whenever the engine was asked
\* and did not give a well-formed Ok answer (no answer, an HTTP error status,
\* a code other than Ok, an Ok answer without the arrays or the routes) the
\* result is the fallback result; every fallback result carries fallback =
\* true; and a result without it comes from a well-formed answer.
C14_FallbackOnEveryFailure ==
    EngineAsked =>
        LET result == rq.result[1]
            fallback == IF rq.op = "matrix"
                        THEN FallbackDistanceMatrix(rq.coordinates)
                        ELSE FallbackRoute(rq.coordinates)
        IN  /\ engine.mode # "up" => result = fallback
            /\ result = fallback => result.fallback
            /\ ~result.fallback => engine.mode = "up"

\* the same for the failures of the transport, of the HTTP status and of the
\* code, and well-formed answers
C14_UpstreamFailures ==
    engine.mode \in {"no_body", "no_routes"} \/ C14_FallbackOnEveryFailure

\* the call just made is an add-employee, preview or commit, for a route there
\* is, and the employee is on that route already or the route is full
AddConflict ==
    /\ ed # EdIdle
    /\ ed' # ed
    /\ ed'.last.op = "add"
    /\ SelectSimulation(db, ed'.last.simulation_id) # None
    /\ SelectRoute(db, ed'.last.route_id, ed'.last.simulation_id) # None
    /\ LET route == SelectRoute(db, ed'.last.route_id, ed'.last.simulation_id)[1]
       IN  \/ \E k \in 1..Len(route.stops) :
                 ed'.last.request \in SeqRange(route.stops[k].employee_ids)
           \/ route.passengers >= route.capacity

\* C15: an add-employee request, preview or commit, for an employee who is
\* already a member of a stop of the route, or for a route whose passengers
\* have reached its capacity, is answered 400, and no rejected request of the
\* plan editor changes a route row or a plan row.
C15_AddConflictRejected ==
    /\ [][AddConflict => (ed'.last.response.status = 400 /\ db' = db)]_vars
    /\ [][(ed # EdIdle /\ ed' # ed /\ ed'.last.response.status # 200)
            => db' = db]_vars

\* C15 witness: a preview of an add to a full route was rejected, then the
\* commit of an add of an employee the route already has
C15_Witness ==
    /\ ed # EdIdle
    /\ ed.prev.op = "add" /\ ~ed.prev.commit
    /\ ed.prev.response.status = 400
    /\ ed.prev.response.detail = "Arac kapasitesi dolu"
    /\ ed.last.op = "add" /\ ed.last.commit
    /\ ed.last.response.status = 400
    /\ ed.last.response.detail = "Personel zaten bu rotada"

\* the ids of the members of a list of stops, stop after stop
MemberIds(stops) == FlatSeq([k \in 1..Len(stops) |-> stops[k].employee_ids])

\* the employee is neither in the ids, nor in the names, nor in the walk list
\* of the stop, and the stop has a member
StopIsWithout(stop, employee_id) ==
    /\ stop.employee_ids # <<>>
    /\ employee_id \notin SeqRange(stop.employee_ids)
    /\ Len(stop.employee_names) = Len(stop.employee_ids)
    /\ \A i \in 1..Len(stop.employee_names) :
          stop.employee_names[i] = 1000 + stop.employee_ids[i]
    /\ \A i \in 1..Len(stop.employee_walking_distances) :
          stop.employee_walking_distances[i].employee_id # employee_id
    /\ stop.employee_count = Len(stop.employee_ids)

\* what a committed remove-employee call for a route there is has to do
RemoveDone(call, route, after) ==
    IF call.request \in SeqRange(MemberIds(route.stops))
    THEN /\ call.response.status = 200
         /\ after.passengers = route.passengers - 1
         /\ MemberIds(after.stops) =
                SelectSeq(MemberIds(route.stops), LAMBDA e : e # call.request)
         /\ \A k \in 1..Len(after.stops) : StopIsWithout(after.stops[k], call.request)
         /\ after.stops = <<>> =>
                after.distance = 0 /\ after.duration = 0 /\ after.polyline = <<>>
    ELSE /\ call.response.status = 404
         /\ after = route

\* C16: a committed remove-employee for an employee on the route takes the
\* employee out of the ids, the names and the walk list of the stop, keeps
\* every other member, leaves no stop without a member, lowers passengers by
\* exactly 1 and, when no stop is left, stores distance 0, duration 0 and an
\* empty polyline; for an employee not on the route it is answered 404 and
\* the tables stay as they were.
C16_RemoveEmployee ==
    [][(ed # EdIdle /\ ed' # ed /\ ed'.last.op = "remove" /\ ed'.last.commit
          /\ SelectSimulation(db, ed'.last.simulation_id) # None
          /\ SelectRoute(db, ed'.last.route_id, ed'.last.simulation_id) # None)
       => /\ RemoveDone(ed'.last,
                SelectRoute(db, ed'.last.route_id, ed'.last.simulation_id)[1],
                SelectRoute(db', ed'.last.route_id, ed'.last.simulation_id)[1])
          /\ ed'.last.response.status # 200 => db' = db]_vars

\* C16 witness: the last employee of a route was removed and the route is
\* left without a stop
C16_Witness ==
    /\ ed # EdIdle
    /\ ed.last.op = "remove" /\ Committed(ed.last)
    /\ SelectRoute(db, ed.last.route_id, ed.last.simulation_id)[1].stops = <<>>

\* a further case: one of several members of a stop was removed after a stop
\* of the route had been moved, so that the stop had a walk list
C16_SharedStopWitness ==
    /\ ed # EdIdle
    /\ ed.prev.op = "move" /\ Committed(ed.prev) /\ ed.prev.request # <<>>
    /\ ed.last.op = "remove" /\ Committed(ed.last)
    /\ ed.last.route_id = ed.prev.route_id
    /\ LET route == SelectRoute(db, ed.last.route_id, ed.last.simulation_id)[1]
       IN  \E k \in 1..Len(route.stops) :
              /\ Len(route.stops[k].employee_ids) = 10
              /\ Len(route.stops[k].employee_walking_distances) = 10

\* and the rejected case: the employee was not on the route
C16_NotOnRouteWitness ==
    /\ ed # EdIdle
    /\ ed.last.op = "remove" /\ ed.last.commit
    /\ ed.last.response.status = 404
    /\ ed.last.response.detail = "Personel bu rotada bulunamadi"

\* no vehicle of the result carries more than its capacity
LoadsWithinCapacity ==
    \A v \in 1..Len(svResult.solution.loads) :
        svResult.solution.loads[v] <= svResult.solution.vehicle_capacities[v]

\* C17, as the spec has it: in scenario S2 the plan uses at most 2 vehicles
\* and no route's load exceeds its vehicle's capacity.
C17_AtMostTwoVehicles ==
    svResult.called =>
        /\ SolveSolved
        /\ svResult.solution.vehicles_used <= 2
        /\ LoadsWithinCapacity

\* C17, amended: in scenario S2 there is a plan, it uses at least 3 of the 4
\* vehicles (a 16-seater holds one stop of ten, the 27-seater two), every
\* stop is on exactly one route and no route's load exceeds its vehicle's
\* capacity.
C17_AtLeastThreeVehicles ==
    svResult.called =>
        /\ SolveSolved
        /\ svResult.solution.vehicles_used >= 3
        /\ svResult.solution.vehicles_used <= 4
        /\ \A n \in SolveNodes : Visits(svResult.solution.routes, n) = 1
        /\ LoadsWithinCapacity

\* C17 witness: scenario S2 solved with three vehicles, the 27-seater
\* carrying two stops
C17_Witness ==
    /\ svResult.called
    /\ SolveSolved
    /\ Len(svIn.stops) = 4
    /\ svIn.num_16_seaters = 3 /\ svIn.num_27_seaters = 1
    /\ svResult.solution.vehicles_used = 3
    /\ svResult.solution.vehicle_types[1] = "27-seater"
    /\ svResult.solution.loads[1] = 20

\* the request asks for no vehicle at all
ZeroFleet == params # <<>> /\ params.use_16_seaters = 0 /\ params.use_27_seaters = 0

\* C18: a create_simulation request with a fleet of zero vehicles is rejected
\* as invalid input: the solver is never called for it, so the retry loop
\* never enlarges the fleet, and no plan is persisted.
C18_ZeroFleetRejected ==
    ZeroFleet =>
        /\ cr.calls = 0
        /\ cr.num_16 = 0 /\ cr.num_27 = 0
        /\ db = EmptyTables
        /\ cr.pc = "done" => response.status \in {400, 422}

\* the last part alone.  It fails too when the routing library answers an
\* empty fleet with no solution: the retry loop then adds vehicles and the plan
\* found with them is committed.
C18_ZeroFleetNeverPersisted == ZeroFleet => db = EmptyTables

\* C19: every stop create_simulation hands to the solver, after the snap step
\* has moved it to its road position and recomputed the walking distances,
\* has a max walking distance of at most the walking cap of the request, and
\* an individual stop still has walking distance 0.
C19_SnappedWalkWithinCap ==
    cr.pc = "solve" =>
        \A k \in 1..Len(cr.stops) :
            /\ cr.stops[k].max_walking_distance <= params.max_walking_distance
            /\ cr.stops[k].is_individual_stop =>
                   cr.stops[k].max_walking_distance = 0

\* the same for the requests whose stops the engine did not move
C19_WhenNotSnapped == engine.mode = "down" => C19_SnappedWalkWithinCap

\* vehicles of each size one enlargement adds, by the priority of the request
EnlargementRule ==
    LET priority == params.vehicle_priority
    IN  IF priority = Some("small") THEN [small |-> 2, large |-> 0]
        ELSE IF priority = Some("large") THEN [small |-> 0, large |-> 2]
        ELSE [small |-> 1, large |-> 1]

\* C20: attempt k of the retry loop (k = 1..5) runs with the requested fleet
\* plus k - 1 enlargements, an enlargement being +2 small for priority small,
\* +2 large for priority large and +1 small and +1 large for auto; it is the
\* k-th call of the solver; and the stops, the matrices and the duration
\* bound are the same in every attempt.
C20_FleetEnlargement ==
    /\ [](cr.pc = "solve" =>
            /\ cr.attempt \in 0..(MaxRetries - 1)
            /\ cr.calls = cr.attempt
            /\ cr.num_16 = params.use_16_seaters + cr.attempt * EnlargementRule.small
            /\ cr.num_27 = params.use_27_seaters + cr.attempt * EnlargementRule.large)
    /\ [][(cr.pc = "solve" /\ cr'.pc \in {"solve", "check"}) =>
            /\ cr'.stops = cr.stops
            /\ cr'.distances = cr.distances
            /\ cr'.duration_matrix = cr.duration_matrix
            /\ cr'.max_route_duration = cr.max_route_duration
            /\ (Succeeded(cr'.optimization_result) =>
                   cr'.num_16 = cr.num_16 /\ cr'.num_27 = cr.num_27)]_vars

\* C20 witness: the fifth attempt of a request of priority small is about to
\* run, with eight 16-seaters more than requested
C20_Witness ==
    /\ cr.pc = "solve"
    /\ cr.attempt = 4
    /\ params.vehicle_priority = Some("small")
    /\ cr.num_16 = params.use_16_seaters + 8
    /\ cr.num_27 = params.use_27_seaters

\* a node list that leaves the depot, visits one stop or more and comes back
DepotToDepot(route) ==
    /\ Len(route) >= 3
    /\ route[1] = 0
    /\ route[Len(route)] = 0
    /\ \A k \in 2..(Len(route) - 1) : route[k] # 0

\* C21: in every solver result each vehicle's route is either the empty list,
\* with distance 0 and load 0, or a node list that starts and ends at the
\* depot with at least one stop and no depot in between; vehicles_used is the
\* number of non-empty routes.
C21_RouteEncoding ==
    svResult.called =>
        LET sol == svResult.solution
        IN  /\ \A v \in 1..Len(sol.routes) :
                  \/ sol.routes[v] = <<>> /\ sol.distances[v] = 0 /\ sol.loads[v] = 0
                  \/ DepotToDepot(sol.routes[v])
            /\ sol.vehicles_used =
                  Cardinality({v \in 1..Len(sol.routes) : sol.routes[v] # <<>>})

\* C21 witness: a fleet of two solved with one vehicle left at the depot
C21_Witness ==
    /\ SolveSolved
    /\ Len(svResult.solution.routes) = 2
    /\ svResult.solution.vehicles_used = 1
    /\ \E v \in 1..2 : svResult.solution.routes[v] = <<>>
    /\ \E v \in 1..2 : Len(svResult.solution.routes[v]) = 4

\* stops of the route within AddThreshold of a home
StopsNear(route, home) ==
    {k \in 1..Len(route.stops) :
        Geodesic(home, route.stops[k].location) <= AddThreshold}

\* stop k of the route with the employee appended: ids, names, walk list,
\* max walk; the place stays
JoinedAt(before, after, emp, walk) ==
    /\ after.location = before.location
    /\ after.employee_ids = Append(before.employee_ids, emp.id)
    /\ after.employee_names = Append(before.employee_names, emp.name)
    /\ after.employee_count = before.employee_count + 1
    /\ after.employee_walking_distances =
           Append(before.employee_walking_distances,
                  [employee_id |-> emp.id, walking_distance |-> walk])
    /\ after.max_walking_distance = MaxWalk(after.employee_walking_distances)
    /\ after.max_walking_distance >= walk

\* what an accepted add-employee has to do to the route
AddDone(route, after, emp) ==
    LET near == StopsNear(route, emp.lat)
        n == Len(route.stops)
        dist(k) == Geodesic(emp.lat, route.stops[k].location)
    IN  /\ after.passengers = route.passengers + 1
        /\ IF near # {}
           THEN /\ Len(after.stops) = n
                /\ \E k \in near :
                      /\ \A j \in near : dist(k) <= dist(j)
                      /\ \A j \in 1..n : j # k => after.stops[j] = route.stops[j]
                      /\ JoinedAt(route.stops[k], after.stops[k], emp, dist(k))
           ELSE /\ Len(after.stops) = n + 1
                /\ SubSeq(after.stops, 1, n) = route.stops
                /\ after.stops[n + 1].location = emp.lat
                /\ after.stops[n + 1].employee_ids = <<emp.id>>
                /\ after.stops[n + 1].employee_names = <<emp.name>>
                /\ after.stops[n + 1].employee_count = 1
                /\ after.stops[n + 1].employee_walking_distances =
                       <<[employee_id |-> emp.id, walking_distance |-> 0]>>
                /\ after.stops[n + 1].max_walking_distance = 0

\* C22: an accepted add-employee appends the employee to the nearest stop of
\* the route within 400 m of the home (ids, names, walk list, max walk) and
\* leaves the number and the order of the stops as they were; with no such
\* stop it appends a new stop of one member with walking distance 0 at the
\* home as the last stop of the route; in both cases passengers grows by 1.
C22_AddEmployee ==
    [][(ed # EdIdle /\ ed' # ed /\ ed'.last.op = "add" /\ Committed(ed'.last))
       => AddDone(SelectRoute(db, ed'.last.route_id, ed'.last.simulation_id)[1],
                  SelectRoute(db', ed'.last.route_id, ed'.last.simulation_id)[1],
                  EmployeeLookup(employees, ed'.last.request)[1])]_vars

\* the route of the last call, as committed
LastRoute == SelectRoute(db, ed.last.route_id, ed.last.simulation_id)[1]

\* C22 witness: after the first stop of a route had been moved to 300 m from
\* the home, the employee joined the second stop, 200 m from the home
C22_Witness ==
    /\ ed # EdIdle
    /\ ed.prev.op = "move" /\ Committed(ed.prev)
    /\ ed.last.op = "add" /\ Committed(ed.last)
    /\ ed.last.route_id = ed.prev.route_id
    /\ Len(LastRoute.stops) = 2
    /\ Cardinality(StopsNear(LastRoute, 1210)) = 2
    /\ ed.last.request \in SeqRange(LastRoute.stops[2].employee_ids)

\* the other case: no stop within 400 m, a new last stop at the home
C22_NewStopWitness ==
    /\ ed # EdIdle
    /\ ed.last.op = "add" /\ Committed(ed.last)
    /\ LET n == Len(LastRoute.stops)
       IN  /\ n >= 2
           /\ LastRoute.stops[n].employee_ids = <<ed.last.request>>
           /\ LastRoute.stops[n].road_name = "Manuel ekleme"

\* what a committed reorder with index i has to do to a route of n stops
ReorderDone(call, route, after) ==
    LET i == call.request
        n == Len(route.stops)
    IN  IF 0 <= i /\ i < n
        THEN /\ call.response.status = 200
             /\ Len(after.stops) = n
             /\ \A k \in 1..n : after.stops[k] = route.stops[((k - 1 + i) % n) + 1]
             /\ i = 0 => after.stops = route.stops
             /\ after.passengers = route.passengers
        ELSE /\ call.response.status = 400
             /\ after = route

\* C23: a committed reorder with index i, 0 <= i < n, stores exactly
\* stops[i:] + stops[:i], the same n stops with their members in rotated
\* order, so that i = 0 leaves the list as it was, and passengers stays; an
\* index outside [0, n) is rejected and nothing is written.
C23_ReorderRotates ==
    [][(ed # EdIdle /\ ed' # ed /\ ed'.last.op = "reorder" /\ ed'.last.commit
          /\ SelectSimulation(db, ed'.last.simulation_id) # None
          /\ SelectRoute(db, ed'.last.route_id, ed'.last.simulation_id) # None)
       => /\ ReorderDone(ed'.last,
                SelectRoute(db, ed'.last.route_id, ed'.last.simulation_id)[1],
                SelectRoute(db', ed'.last.route_id, ed'.last.simulation_id)[1])
          /\ ed'.last.response.status # 200 => db' = db]_vars

\* C23 witness: a route of three stops, the third one added by an edit, was
\* reordered with index 1
C23_Witness ==
    /\ ed # EdIdle
    /\ ed.prev.op = "add" /\ Committed(ed.prev)
    /\ ed.last.op = "reorder" /\ Committed(ed.last)
    /\ ed.last.route_id = ed.prev.route_id
    /\ ed.last.request = 1
    /\ Len(LastRoute.stops) = 3
    /\ LastRoute.stops[2].employee_ids = <<ed.prev.request>>

\* the rejected cases: an index below 0 and an index of n or more
C23_RejectedWitness ==
    /\ ed # EdIdle
    /\ ed.prev.op = "reorder" /\ ed.prev.commit /\ ed.prev.request = -1
    /\ ed.prev.response.detail = "Gecersiz durak indeksi"
    /\ ed.last.op = "reorder" /\ ed.last.commit /\ ed.last.request = 3
    /\ ed.last.response.detail = "Gecersiz durak indeksi"

\* the fields of a stop that a move may write
MoveWrites ==
    {"location", "employee_walking_distances", "max_walking_distance", "road_name"}

\* the lists' positions of the stops the request names
NamedStops(request, n) ==
    {request[u].stop_index + 1 : u \in 1..Len(request)} \cap (1..n)

\* the route after a committed move differs from the route before in the
\* fields MoveWrites of the named stops (and in distance, duration, polyline)
MoveFrame(request, route, after) ==
    LET n == Len(route.stops)
    IN  /\ Len(after.stops) = n
        /\ \A k \in 1..n :
              IF k \in NamedStops(request, n)
              THEN /\ DOMAIN after.stops[k] = DOMAIN route.stops[k] \cup MoveWrites
                   /\ \A f \in DOMAIN route.stops[k] \ MoveWrites :
                         after.stops[k][f] = route.stops[k][f]
              ELSE after.stops[k] = route.stops[k]
        /\ \A f \in DOMAIN route \ {"stops", "distance", "duration", "polyline"} :
              after[f] = route[f]

\* C24: a committed move of stops changes, in the route's stop list, only the
\* location, the members' walking distances, the max walk and the road name
\* of the stops named in the request; the order of the stops, the member ids
\* and names of every stop, every stop not named, and the route's
\* passengers, vehicle type and capacity stay as they were.
C24_MoveStopFrame ==
    [][(ed # EdIdle /\ ed' # ed /\ ed'.last.op = "move" /\ Committed(ed'.last))
       => MoveFrame(ed'.last.request,
              SelectRoute(db, ed'.last.route_id, ed'.last.simulation_id)[1],
              SelectRoute(db', ed'.last.route_id, ed'.last.simulation_id)[1])]_vars

\* C24 witness: the first of two stops of a route, a stop of eleven members,
\* was moved and has its members and a walk list of eleven entries
C24_Witness ==
    /\ ed # EdIdle
    /\ ed.last.op = "move" /\ Committed(ed.last)
    /\ Len(ed.last.request) = 1 /\ ed.last.request[1].stop_index = 0
    /\ Len(LastRoute.stops) = 2
    /\ LastRoute.stops[1].location = ed.last.request[1].lat
    /\ Len(LastRoute.stops[1].employee_ids) = 11
    /\ Len(LastRoute.stops[1].employee_walking_distances) = 11
    /\ LastRoute.stops[1].max_walking_distance > 0

\* the nearest of a set of waypoints
Nearest(wps, among) ==
    CHOOSE w \in among : \A x \in among : w.distance <= x.distance

\* the three tiers as the specification words them: a main road within
\* 3 x max_distance; else a named road that is not a small street within
\* max_distance; else the nearest of all
TierChoice(waypoints, max_distance) ==
    LET all == SeqRange(waypoints)
        main == {w \in all : w.kind = "main" /\ w.distance <= 3 * max_distance}
        named == {w \in all : w.kind \notin {"main", "small", ""}
                              /\ w.distance <= max_distance}
    IN  IF main # {} THEN Nearest(all, main)
        ELSE IF named # {} THEN Nearest(all, named)
        ELSE Nearest(all, all)

\* the snap_to_road tasks that got an answer with waypoints
SnappedTasks ==
    IF sn = SnIdle THEN {}
    ELSE {i \in 1..Len(sn.tasks) : sn.tasks[i] # None /\ sn.tasks[i][1].valid}

\* C25: with main-road preference snap_to_road takes the nearest waypoint on
\* a main road within 3 x max_distance if there is one; otherwise the nearest
\* waypoint on a named road that is not a small street within max_distance;
\* otherwise the nearest waypoint of all.
C25_ThreeTiers ==
    \A i \in SnappedTasks :
        LET wp == TierChoice(Waypoints(engine, sn.coordinates[i]), SnapMaxDistance)
        IN  /\ sn.tasks[i][1].snapped = wp.location
            /\ sn.tasks[i][1].walking_distance = wp.distance
            /\ sn.tasks[i][1].road_name = wp.kind

\* the first and the last tier are as worded: a main road within
\* 3 x max_distance wins, and with small streets only the nearest is taken
C25_FirstAndLastTier ==
    (\A k \in 1..Len(engine.roads) : engine.roads[k].kind \in {"main", "small"})
        => C25_ThreeTiers

\* the coordinates create_simulation asks the matrix for
MatrixCoords ==
    <<params.depot_location>> \o [k \in 1..Len(cr.stops) |-> cr.stops[k].location]

\* the durations before any traffic scaling, in 1/DurScale s: the engine's
\* (or the fallback's), or the solver's estimate from the distances when the
\* answer has none
UnscaledDurations ==
    LET answer == GetDistanceMatrix(engine, MatrixCoords)
    IN  IF answer.durations # <<>> THEN answer.durations
        ELSE [i \in DOMAIN answer.distances |-> [j \in DOMAIN answer.distances[i] |->
                 EstimateDuration(answer.distances[i][j]) * DurScale]]

\* C26: in every solver attempt of create_simulation the duration matrix the
\* solver uses and the bound T_max are scaled by the traffic factor of the
\* plan's traffic mode: every entry, in whole seconds, is the duration times
\* the factor and T_max is max_travel_time x 60 times the factor, also when
\* the engine's answer carries no durations.
C26_SameTrafficFactor ==
    cr.pc = "solve" =>
        LET factor == TrafficFactor(params.traffic_mode)
            used == SolverDurations(cr.distances, cr.duration_matrix)
        IN  /\ cr.max_route_duration = (params.max_travel_time * 60 * factor) \div 10
            /\ DOMAIN used = DOMAIN UnscaledDurations
            /\ \A i \in DOMAIN used : \A j \in DOMAIN used[i] :
                  used[i][j] \div DurScale =
                      ((UnscaledDurations[i][j] * factor) \div 10) \div DurScale

\* the same for the answers that carry durations, and for the fallback matrix
C26_WhenDurationsGiven == engine.mode # "no_durations" => C26_SameTrafficFactor

\* what the clustering method returned before the residual was handled
MethodResult ==
    IF clMethod = "dbscan" THEN ClusterWithDbscan(clEmployees, clW)
    ELSE ClusterWithKMeans(clEmployees, clW, clResult.labels)

\* the stops of the method within W of a residual employee, by list position
StopsWithin(e) ==
    {k \in 1..Len(MethodResult.stops) :
        Dist(e.location, MethodResult.stops[k].location) <= clW}

\* positions of the stops of the output that have the employee as a member
StopsOf(id) ==
    {k \in 1..Len(clResult.stops) : id \in SeqRange(clResult.stops[k].employee_ids)}

\* a stop of one member, at the member's home, with walk 0
IsIndividualStop(stop, e) ==
    /\ stop.employee_ids = <<e.employee_id>>
    /\ stop.employee_count = 1
    /\ stop.location = e.location
    /\ stop.max_distance_to_centroid = 0

\* the residual handling: every residual employee is a member of the first
\* stop within W of the home, whose max distance is then at least that far,
\* or, with no such stop, of an individual stop; the stops of the method keep
\* their place and their members
ResidualHandled ==
    LET base == MethodResult
        n0 == Len(base.stops)
        residual == base.unclustered
    IN  /\ Len(clResult.stops) =
              n0 + Cardinality({r \in 1..Len(residual) : StopsWithin(residual[r]) = {}})
        /\ \A k \in 1..n0 :
              /\ clResult.stops[k].location = base.stops[k].location
              /\ SubSeq(clResult.stops[k].employee_ids, 1,
                        Len(base.stops[k].employee_ids)) = base.stops[k].employee_ids
              /\ clResult.stops[k].employee_count = Len(clResult.stops[k].employee_ids)
              /\ clResult.stops[k].max_distance_to_centroid >=
                     base.stops[k].max_distance_to_centroid
        /\ \A r \in 1..Len(residual) :
              LET e == residual[r]
              IN  IF StopsWithin(e) # {}
                  THEN LET k == SetMin(StopsWithin(e))
                       IN  /\ StopsOf(e.employee_id) = {k}
                           /\ clResult.stops[k].max_distance_to_centroid >=
                                  Dist(e.location, base.stops[k].location)
                  ELSE \E k \in (n0 + 1)..Len(clResult.stops) :
                          /\ StopsOf(e.employee_id) = {k}
                          /\ IsIndividualStop(clResult.stops[k], e)

\* no two employees live within W of each other
PairwiseApart ==
    \A i, j \in 1..Len(clEmployees) :
        i # j => Dist(clEmployees[i].lat, clEmployees[j].lat) > clW

\* n stops, each of one member with walk 0
AllIndividual ==
    /\ clResult.status = "ok"
    /\ Len(clResult.stops) = Len(clEmployees)
    /\ \A k \in 1..Len(clResult.stops) :
          /\ clResult.stops[k].employee_count = 1
          /\ clResult.stops[k].max_distance_to_centroid = 0

\* C27: for both clustering methods every residual employee is attached to
\* the first stop, in stop order, within W of the home (raising the stop's
\* max distance), every employee without such a stop becomes an individual
\* stop of one member with walk 0, and n employees pairwise farther apart
\* than W yield exactly n individual stops.
C27_ResidualHandling ==
    clResult.status # "none" =>
        /\ clResult.status = "ok" => ResidualHandled
        /\ PairwiseApart => AllIndividual

\* the handling of the residual is as worded for both methods, and the n
\* individual stops come out of the density method
C27_DensityMethod ==
    clResult.status # "none" =>
        /\ clResult.status = "ok" => ResidualHandled
        /\ (PairwiseApart /\ clMethod = "dbscan") => AllIndividual

\* the columns of a plan row an edit may write
TotalsColumns == {"total_distance", "total_duration", "total_passengers"}

\* after differs from before in the row of route r and in the totals of plan
\* p at most
EditFrame(before, after, p, r) ==
    /\ Len(after.simulation_routes) = Len(before.simulation_routes)
    /\ Len(after.simulations) = Len(before.simulations)
    /\ \A k \in 1..Len(before.simulation_routes) :
          LET row == before.simulation_routes[k]
          IN  IF row.id = r
              THEN /\ row.simulation_id = p
                   /\ after.simulation_routes[k].id = r
                   /\ after.simulation_routes[k].simulation_id = p
              ELSE after.simulation_routes[k] = row
    /\ \A k \in 1..Len(before.simulations) :
          LET plan == before.simulations[k]
          IN  IF plan.id = p
              THEN /\ DOMAIN after.simulations[k] = DOMAIN plan
                   /\ \A f \in DOMAIN plan \ TotalsColumns :
                         after.simulations[k][f] = plan[f]
              ELSE after.simulations[k] = plan

BothAdded ==
    /\ txs # TxIdle
    /\ \A t \in Transactions :
          /\ txs[t].op = "add"
          /\ txs[t].pc = "done"
          /\ txs[t].response.status = 200
    /\ txs[1].route_id = txs[2].route_id

\* C29: when two add-employee commits for two different employees on the same
\* route have run concurrently and both returned success, the route persisted
\* after both commits contains both employees and its passengers counts them,
\* under every interleaving.
C29_BothAddsPersist ==
    BothAdded =>
        LET route == SelectRoute(db, txs[1].route_id, txs[1].simulation_id)[1]
        IN  /\ \A t \in Transactions :
                  txs[t].request \in SeqRange(MemberIds(route.stops))
            /\ route.passengers = Len(MemberIds(route.stops))

\* the adds that went to two different routes are both persisted
C29_DifferentRoutes ==
    (/\ txs # TxIdle
     /\ \A t \in Transactions :
           txs[t].op = "add" /\ txs[t].pc = "done" /\ txs[t].response.status = 200
     /\ txs[1].route_id # txs[2].route_id)
    => \A t \in Transactions :
          LET route == SelectRoute(db, txs[t].route_id, txs[t].simulation_id)[1]
          IN  /\ txs[t].request \in SeqRange(MemberIds(route.stops))
              /\ route.passengers = Len(MemberIds(route.stops))


\* the employee ids on the stops of all routes of a plan, route after route
PlanMemberIds(d, plan) ==
    LET routes == PlanRoutes(d, plan)
    IN  FlatSeq([k \in 1..Len(routes) |-> MemberIds(routes[k].stops)])

\* no employee id is a member of more than one stop of the plan
OneStopEach(d) ==
    \A p \in 1..Len(d.simulations) :
        LET ids == PlanMemberIds(d, d.simulations[p])
        IN  \A i, j \in 1..Len(ids) : ids[i] = ids[j] => i = j

\* the editor has made no call other than adding and removing employees
OnlyAddsAndRemoves ==
    /\ ed # EdIdle
    /\ ed.prev.op \in {"none", "add", "remove"}
    /\ ed.last.op \in {"none", "add", "remove"}

\* C30: after plan creation and after any sequence of committed add-employee
\* and remove-employee edits on the routes of a plan, no employee id is a
\* member of more than one stop across all routes of that plan.
C30_OneStopPerEmployee == OnlyAddsAndRemoves => OneStopEach(db)

\* right after plan creation every employee is on one stop
C30_AfterCreation == (ed # EdIdle /\ ed.ops = 0) => OneStopEach(db)

\* adds and removes on a plan of one route keep every employee on one stop
C30_WithinOneRoute ==
    (OnlyAddsAndRemoves /\ Len(db.simulation_routes) <= 1) => OneStopEach(db)

====
